---- MODULE Spec2Model ----
(***************************************************************************)
(* A model of the XGPT core: the job tracking service                      *)
(* (src/src/jobs/tracker.ts) and the search session engine                 *)
(* (src/src/commands/search.ts, src/src/database/queries.ts and the search *)
(* utilities in src/unnamed/part_010).                                     *)
(*                                                                         *)
(* JavaScript runs every asynchronous function on one event loop: the code *)
(* between two awaits is one atomic step, and any other task may run at an *)
(* await.  Each handler is therefore an action per synchronous section,    *)
(* with the position of every call in flight kept in a variable.           *)
(***************************************************************************)
EXTENDS Integers, Sequences, FiniteSets, TLC

(***************************************************************************)
(* Part I.  The job tracker.                                               *)
(***************************************************************************)

VARIABLES
    now,              \* Date.now(), in milliseconds
    jobs,             \* JobTracker.jobs: Map<string, Job>
    abortControllers, \* JobTracker.abortControllers: job id -> controller
    aborted,          \* the AbortControllers whose signal is aborted
    listeners,        \* JobTracker.listeners
    initialized,      \* JobTracker.initialized
    initPromise,      \* JobTracker.initPromise: 0 (null) or the run it stands for
    runs,             \* every _doInitialize run started so far: its position
    reloads,          \* how many reload() calls were made
    db,               \* the persisted jobs table: id -> row
    timers,           \* pending setTimeout eviction callbacks
    task,             \* per caller: the tracker call in flight and its position
    created,          \* how many job records createJob has built
    calls,            \* how many calls and clock advances happened (bounded)
    contexts,         \* the JobContexts handed out by createJob
    emitted,          \* the listener notifications issued by the last step
    returned          \* the call that returned in the last step, with its result

trackerVars == <<now, jobs, abortControllers, aborted, listeners,
                 initialized, initPromise, runs, reloads, db, timers, task,
                 created, calls, contexts, emitted, returned>>

\* Part III, the retry wrappers, and Part IV, the query builder and the
\* variant matcher
VARIABLES
    retry,            \* the withSmartRetry / withTwitterRetry call in flight
    split,            \* a variant list, and what splitQuery made of it
    match             \* a text and a variant list, and what matchVariant found

utilVars == <<retry, split, match>>

\* ---- bounds of the model
MaxCalls == 3

\* ---- program constants
StaleMs == 3600000
RetentionMs == 86400000
RecentMs == 30000
EvictDelayMs == 30000

NULL == "null"
NoDate == -1
NoId == <<"none", 0>>
GhostId == <<"search", 0>>

Types == {"search"}
Callers == {"c1", "c2"}
CallerRank == [c \in Callers |-> IF c = "c1" THEN 1 ELSE 2]
Listeners == {"l1"}
ClockSteps == {EvictDelayMs, StaleMs + 1}
StartNow == RetentionMs + 2

ProgressInputs ==
    { [current |-> 1, total |-> 2, message |-> "p1"],
      [current |-> 2, total |-> 2, message |-> "p2"] }
CompleteInputs == { <<TRUE, NULL>>, <<FALSE, "boom">> }

NoProgress == [current |-> 0, total |-> 0, message |-> ""]

\* ---- finite maps with a dynamic domain
Put(f, k, v) == (k :> v) @@ f
Drop(f, k) == [x \in DOMAIN f \ {k} |-> f[x]]
EmptyMap == [x \in {} |-> NULL]


\* ---- the persisted job table (jobQueries)
DbRow(status, started, p) ==
    [status |-> status, startedAt |-> started, completedAt |-> NoDate,
     progressCurrent |-> p.current, progressTotal |-> p.total,
     progressMessage |-> p.message, errorMessage |-> NULL]

DbUpdateProgress(d, id, p) ==
    IF id \in DOMAIN d
    THEN [d EXCEPT ![id].progressCurrent = p.current,
                   ![id].progressTotal = p.total,
                   ![id].progressMessage = p.message]
    ELSE d

DbCompleteJob(d, id, success, err, t) ==
    IF id \in DOMAIN d
    THEN [d EXCEPT ![id].status = IF success THEN "completed" ELSE "failed",
                   ![id].completedAt = t,
                   ![id].errorMessage = err]
    ELSE d

IsStale(row, maxAge, t) == row.status = "running" /\ row.startedAt < t - maxAge

markStaleJobsFailed(d, maxAge, t) ==
    [id \in DOMAIN d |->
        IF IsStale(d[id], maxAge, t)
        THEN [d[id] EXCEPT !.status = "failed"]
        ELSE d[id]]

cleanupOldJobs(d, maxAge, t) ==
    [id \in {x \in DOMAIN d : ~(d[x].startedAt < t - maxAge)} |-> d[id]]

getRecentJobs(d, window, t) ==
    {id \in DOMAIN d :
        \/ d[id].status = "running"
        \/ (d[id].completedAt # NoDate /\ d[id].completedAt > t - window)}

\* ---- dbJobToJob: a persisted row as an in-memory job
dbJobToJob(row) ==
    [status |-> row.status,
     startedAt |-> row.startedAt,
     completedAt |-> row.completedAt,
     progress |-> [current |-> row.progressCurrent,
                   total |-> row.progressTotal,
                   message |-> IF row.progressMessage = NULL THEN ""
                               ELSE row.progressMessage],
     errorMessage |-> IF row.errorMessage = "" THEN NULL ELSE row.errorMessage]

\* ---- calls in flight
IdleTask ==
    [op |-> "idle", pc |-> "idle", id |-> NoId, type |-> "none",
     prog |-> NoProgress, success |-> TRUE, err |-> NULL, await |-> 0,
     ctrl |-> 0, started |-> NoDate]

\* callers are interchangeable: a new call is issued by the first idle one
Free(c) == task[c].pc = "idle" /\ \A o \in Callers : task[o].pc = "idle" => CallerRank[c] <= CallerRank[o]

Begin(c, op, pc) == [IdleTask EXCEPT !.op = op, !.pc = pc]

Return(t, ret) == << [op |-> t.op, id |-> t.id, ret |-> ret] >>

\* notifyListeners(): every subscribed listener gets the snapshot getAllJobs()
notifyListeners(js) == << [to |-> listeners, jobs |-> js] >>

\* a variant of initialize() without the initPromise check
InitializeStarts_NoPromiseCheck == ~initialized

\* ---- initialize(): the synchronous part, up to the returned promise
InitializeStarts == ~initialized /\ initPromise = 0

InitializeAwait ==
    IF initialized THEN 0
    ELSE IF initPromise # 0 THEN initPromise
    ELSE Len(runs) + 1

\* the caller's await on what initialize() returned is over
InitResolved(t) == IF t.await = 0 THEN TRUE ELSE runs[t.await] = "done"

CallInitialize(c) ==
    /\ Free(c)
    /\ calls < MaxCalls
    /\ calls' = calls + 1
    /\ task' = [task EXCEPT ![c] =
                  [Begin(c, "initialize", "awaitInit") EXCEPT !.await = InitializeAwait]]
    /\ runs' = IF InitializeStarts THEN Append(runs, "mark") ELSE runs
    /\ initPromise' = IF InitializeStarts THEN Len(runs) + 1 ELSE initPromise
    /\ emitted' = << >>
    /\ returned' = << >>
    /\ UNCHANGED <<now, jobs, abortControllers, aborted, listeners,
                   initialized, reloads, db, timers, created, contexts>>

ReturnInitialize(c) ==
    /\ task[c].op = "initialize" /\ task[c].pc = "awaitInit"
    /\ InitResolved(task[c])
    /\ returned' = Return(task[c], "void")
    /\ task' = [task EXCEPT ![c] = IdleTask]
    /\ emitted' = << >>
    /\ UNCHANGED <<calls, now, jobs, abortControllers, aborted, listeners,
                   initialized, initPromise, runs, reloads, db, timers,
                   created, contexts>>

\* ---- _doInitialize: one step per awaited store call; a store error at any
\* ---- of them lands in the catch block, which only sets initialized
DoInitializeMark(k) ==
    /\ k \in 1..Len(runs) /\ runs[k] = "mark"
    /\ \/ /\ db' = markStaleJobsFailed(db, StaleMs, now)
          /\ runs' = [runs EXCEPT ![k] = "cleanup"]
          /\ UNCHANGED initialized
       \/ /\ initialized' = TRUE
          /\ runs' = [runs EXCEPT ![k] = "done"]
          /\ UNCHANGED db
    /\ emitted' = << >>
    /\ returned' = << >>
    /\ UNCHANGED <<calls, now, jobs, abortControllers, aborted, listeners,
                   initPromise, reloads, timers, task, created, contexts>>

DoInitializeCleanup(k) ==
    /\ k \in 1..Len(runs) /\ runs[k] = "cleanup"
    /\ \/ /\ db' = cleanupOldJobs(db, RetentionMs, now)
          /\ runs' = [runs EXCEPT ![k] = "load"]
          /\ UNCHANGED initialized
       \/ /\ initialized' = TRUE
          /\ runs' = [runs EXCEPT ![k] = "done"]
          /\ UNCHANGED db
    /\ emitted' = << >>
    /\ returned' = << >>
    /\ UNCHANGED <<calls, now, jobs, abortControllers, aborted, listeners,
                   initPromise, reloads, timers, task, created, contexts>>

DoInitializeLoad(k) ==
    /\ k \in 1..Len(runs) /\ runs[k] = "load"
    /\ \/ LET recent == getRecentJobs(db, RecentMs, now)
          IN jobs' = [id \in DOMAIN jobs \cup recent |->
                        IF id \in recent THEN dbJobToJob(db[id]) ELSE jobs[id]]
       \/ UNCHANGED jobs
    /\ initialized' = TRUE
    /\ runs' = [runs EXCEPT ![k] = "done"]
    /\ emitted' = << >>
    /\ returned' = << >>
    /\ UNCHANGED <<calls, now, abortControllers, aborted, listeners,
                   initPromise, reloads, db, timers, task, created, contexts>>

\* ---- createJob
CallCreateJob(c, type) ==
    /\ Free(c)
    /\ calls < MaxCalls
    /\ calls' = calls + 1
    /\ task' = [task EXCEPT ![c] =
                  [Begin(c, "createJob", "awaitInit") EXCEPT
                      !.type = type, !.await = InitializeAwait]]
    /\ runs' = IF InitializeStarts THEN Append(runs, "mark") ELSE runs
    /\ initPromise' = IF InitializeStarts THEN Len(runs) + 1 ELSE initPromise
    /\ emitted' = << >>
    /\ returned' = << >>
    /\ UNCHANGED <<now, jobs, abortControllers, aborted, listeners,
                   initialized, reloads, db, timers, created, contexts>>

\* after the await: the id, the controller and the job record are built, and
\* the row is handed to the store
CreateJobBuild(c) ==
    /\ task[c].op = "createJob" /\ task[c].pc = "awaitInit"
    /\ InitResolved(task[c])
    /\ created' = created + 1
    /\ task' = [task EXCEPT ![c].pc = "persist",
                            ![c].id = <<task[c].type, now>>,
                            ![c].ctrl = created + 1,
                            ![c].started = now]
    /\ emitted' = << >>
    /\ returned' = << >>
    /\ UNCHANGED <<calls, now, jobs, abortControllers, aborted, listeners,
                   initialized, initPromise, runs, reloads, db, timers, contexts>>

StartingProgress == [current |-> 0, total |-> 0, message |-> "Starting"]

NewJob(started) ==
    [status |-> "running", startedAt |-> started, completedAt |-> NoDate,
     progress |-> StartingProgress, errorMessage |-> NULL]

\* the insert succeeds, or throws (store failure, or the id is already a row)
\* and the error is swallowed; the job is registered either way
CreateJobRegister(c) ==
    /\ task[c].op = "createJob" /\ task[c].pc = "persist"
    /\ LET id == task[c].id IN
       /\ \/ /\ id \notin DOMAIN db
             /\ db' = Put(db, id, DbRow("running", task[c].started, StartingProgress))
          \/ UNCHANGED db
       /\ jobs' = Put(jobs, id, NewJob(task[c].started))
       /\ abortControllers' = Put(abortControllers, id, task[c].ctrl)
       /\ contexts' = contexts \cup {[jobId |-> id, ctrl |-> task[c].ctrl]}
       /\ emitted' = notifyListeners(jobs')
    /\ returned' = Return(task[c], "context")
    /\ task' = [task EXCEPT ![c] = IdleTask]
    /\ UNCHANGED <<calls, now, aborted, listeners, initialized, initPromise,
                   runs, reloads, timers, created>>

\* ---- updateProgress
CallUpdateProgress(c, id, p) ==
    /\ Free(c)
    /\ calls < MaxCalls
    /\ calls' = calls + 1
    /\ IF id \in DOMAIN jobs
       THEN /\ jobs' = [jobs EXCEPT ![id].progress = p]
            /\ task' = [task EXCEPT ![c] =
                          [Begin(c, "updateProgress", "persist") EXCEPT
                              !.id = id, !.prog = p]]
            /\ returned' = << >>
       ELSE /\ UNCHANGED <<jobs, task>>
            /\ returned' = << [op |-> "updateProgress", id |-> id, ret |-> "void"] >>
    /\ emitted' = << >>
    /\ UNCHANGED <<now, abortControllers, aborted, listeners,
                   initialized, initPromise, runs, reloads, db, timers,
                   created, contexts>>

UpdateProgressPersist(c) ==
    /\ task[c].op = "updateProgress" /\ task[c].pc = "persist"
    /\ \/ db' = DbUpdateProgress(db, task[c].id, task[c].prog)
       \/ UNCHANGED db
    /\ emitted' = notifyListeners(jobs)
    /\ returned' = Return(task[c], "void")
    /\ task' = [task EXCEPT ![c] = IdleTask]
    /\ UNCHANGED <<calls, now, jobs, abortControllers, aborted, listeners,
                   initialized, initPromise, runs, reloads, timers, created,
                   contexts>>

\* ---- completeJob
CallCompleteJob(c, id, success, err) ==
    /\ Free(c)
    /\ calls < MaxCalls
    /\ calls' = calls + 1
    /\ IF id \in DOMAIN jobs
       THEN /\ jobs' = [jobs EXCEPT
                          ![id].status = IF success THEN "completed" ELSE "failed",
                          ![id].completedAt = now,
                          ![id].errorMessage = err]
            /\ abortControllers' = Drop(abortControllers, id)
            /\ task' = [task EXCEPT ![c] =
                          [Begin(c, "completeJob", "persist") EXCEPT
                              !.id = id, !.success = success, !.err = err]]
            /\ returned' = << >>
       ELSE /\ UNCHANGED <<jobs, abortControllers, task>>
            /\ returned' = << [op |-> "completeJob", id |-> id, ret |-> "void"] >>
    /\ emitted' = << >>
    /\ UNCHANGED <<now, aborted, listeners, initialized, initPromise,
                   runs, reloads, db, timers, created, contexts>>

\* a variant of completeJob that lets the store's error escape
CompleteJobPersist_Rethrows(c) ==
    /\ task[c].op = "completeJob" /\ task[c].pc = "persist"
    /\ \/ /\ db' = DbCompleteJob(db, task[c].id, task[c].success,
                                  task[c].err, now)
          /\ emitted' = notifyListeners(jobs)
          /\ timers' = Append(timers,
                        [id |-> task[c].id, at |-> now + EvictDelayMs])
          /\ returned' = Return(task[c], "void")
       \/ /\ UNCHANGED <<db, timers>>
          /\ emitted' = << >>
          /\ returned' = Return(task[c], "throws")
    /\ task' = [task EXCEPT ![c] = IdleTask]
    /\ UNCHANGED <<calls, now, jobs, abortControllers, aborted, listeners,
                   initialized, initPromise, runs, reloads, created, contexts>>

CompleteJobPersist(c) ==
    /\ task[c].op = "completeJob" /\ task[c].pc = "persist"
    /\ \/ db' = DbCompleteJob(db, task[c].id, task[c].success, task[c].err, now)
       \/ UNCHANGED db
    /\ emitted' = notifyListeners(jobs)
    /\ timers' = Append(timers,
                        [id |-> task[c].id, at |-> now + EvictDelayMs])
    /\ returned' = Return(task[c], "void")
    /\ task' = [task EXCEPT ![c] = IdleTask]
    /\ UNCHANGED <<calls, now, jobs, abortControllers, aborted, listeners,
                   initialized, initPromise, runs, reloads, created, contexts>>

\* a variant of the cancelJob guard that lets a finished job through
CancelRefused_OnlyAbsent(id) == id \notin DOMAIN jobs

\* ---- cancelJob
CancelRefused(id) == id \notin DOMAIN jobs \/ jobs[id].status # "running"

\* a variant of cancelJob that leaves completedAt unset
CallCancelJob_NoCompletedAt(c, id) ==
    /\ Free(c)
    /\ calls < MaxCalls
    /\ calls' = calls + 1
    /\ IF id \notin DOMAIN jobs \/ jobs[id].status # "running"
       THEN /\ UNCHANGED <<jobs, abortControllers, aborted, task>>
            /\ returned' = << [op |-> "cancelJob", id |-> id, ret |-> "false"] >>
       ELSE /\ aborted' = IF id \in DOMAIN abortControllers
                          THEN aborted \cup {abortControllers[id]}
                          ELSE aborted
            /\ abortControllers' = Drop(abortControllers, id)
            /\ jobs' = [jobs EXCEPT
                          ![id].status = "cancelled",
                          ![id].progress.message = "Cancelled by user"]
            /\ task' = [task EXCEPT ![c] =
                          [Begin(c, "cancelJob", "persist") EXCEPT !.id = id]]
            /\ returned' = << >>
    /\ emitted' = << >>
    /\ UNCHANGED <<now, listeners, initialized, initPromise, runs,
                   reloads, db, timers, created, contexts>>

CallCancelJob(c, id) ==
    /\ Free(c)
    /\ calls < MaxCalls
    /\ calls' = calls + 1
    /\ IF CancelRefused(id)
       THEN /\ UNCHANGED <<jobs, abortControllers, aborted, task>>
            /\ returned' = << [op |-> "cancelJob", id |-> id, ret |-> "false"] >>
       ELSE /\ aborted' = IF id \in DOMAIN abortControllers
                          THEN aborted \cup {abortControllers[id]}
                          ELSE aborted
            /\ abortControllers' = Drop(abortControllers, id)
            /\ jobs' = [jobs EXCEPT
                          ![id].status = "cancelled",
                          ![id].completedAt = now,
                          ![id].progress.message = "Cancelled by user"]
            /\ task' = [task EXCEPT ![c] =
                          [Begin(c, "cancelJob", "persist") EXCEPT !.id = id]]
            /\ returned' = << >>
    /\ emitted' = << >>
    /\ UNCHANGED <<now, listeners, initialized, initPromise, runs,
                   reloads, db, timers, created, contexts>>

CancelJobPersist(c) ==
    /\ task[c].op = "cancelJob" /\ task[c].pc = "persist"
    /\ \/ db' = DbCompleteJob(db, task[c].id, FALSE, "Cancelled by user", now)
       \/ UNCHANGED db
    /\ emitted' = notifyListeners(jobs)
    /\ timers' = Append(timers,
                        [id |-> task[c].id, at |-> now + EvictDelayMs])
    /\ returned' = Return(task[c], "true")
    /\ task' = [task EXCEPT ![c] = IdleTask]
    /\ UNCHANGED <<calls, now, jobs, abortControllers, aborted, listeners,
                   initialized, initPromise, runs, reloads, created, contexts>>

\* ---- the timers that are set: setTimeout keeps one timer per call, and
\* ---- timers of one delay fire in the order they were set
Pending == {timers[i] : i \in DOMAIN timers}

\* a variant of the timer callback that deletes without notifying
EvictTimerFires_Silent(t) ==
    /\ timers # << >> /\ t = Head(timers) /\ now >= t.at
    /\ jobs' = Drop(jobs, t.id)
    /\ timers' = Tail(timers)
    /\ emitted' = << >>
    /\ returned' = << >>
    /\ UNCHANGED <<calls, now, abortControllers, aborted, listeners,
                   initialized, initPromise, runs, reloads, db, task, created,
                   contexts>>

\* ---- the grace-window timer set by completeJob and cancelJob
EvictTimerFires(t) ==
    /\ timers # << >> /\ t = Head(timers) /\ now >= t.at
    /\ jobs' = Drop(jobs, t.id)
    /\ timers' = Tail(timers)
    /\ emitted' = notifyListeners(jobs')
    /\ returned' = << >>
    /\ UNCHANGED <<calls, now, abortControllers, aborted, listeners,
                   initialized, initPromise, runs, reloads, db, task, created,
                   contexts>>

\* ---- reload
CallReload(c) ==
    /\ Free(c)
    /\ calls < MaxCalls
    /\ calls' = calls + 1
    /\ reloads' = reloads + 1
    /\ jobs' = EmptyMap
    /\ initialized' = FALSE
    /\ runs' = Append(runs, "mark")
    /\ initPromise' = Len(runs) + 1
    /\ task' = [task EXCEPT ![c] =
                  [Begin(c, "reload", "awaitInit") EXCEPT !.await = Len(runs) + 1]]
    /\ emitted' = << >>
    /\ returned' = << >>
    /\ UNCHANGED <<now, abortControllers, aborted, listeners, db,
                   timers, created, contexts>>

ReloadNotify(c) ==
    /\ task[c].op = "reload" /\ task[c].pc = "awaitInit"
    /\ InitResolved(task[c])
    /\ emitted' = notifyListeners(jobs)
    /\ returned' = Return(task[c], "void")
    /\ task' = [task EXCEPT ![c] = IdleTask]
    /\ UNCHANGED <<calls, now, jobs, abortControllers, aborted, listeners,
                   initialized, initPromise, runs, reloads, db, timers,
                   created, contexts>>

\* ---- subscribe and the unsubscribe function it returns
Subscribe(l) ==
    /\ l \notin listeners
    /\ listeners' = listeners \cup {l}
    /\ emitted' = << >>
    /\ returned' = << >>
    /\ UNCHANGED <<calls, now, jobs, abortControllers, aborted, initialized,
                   initPromise, runs, reloads, db, timers, task, created,
                   contexts>>

Unsubscribe(l) ==
    /\ l \in listeners
    /\ listeners' = listeners \ {l}
    /\ emitted' = << >>
    /\ returned' = << >>
    /\ UNCHANGED <<calls, now, jobs, abortControllers, aborted, initialized,
                   initPromise, runs, reloads, db, timers, task, created,
                   contexts>>

\* ---- isJobCancelled: the controller is looked up in the map of controllers
isJobCancelled(id) ==
    IF id \in DOMAIN abortControllers
    THEN abortControllers[id] \in aborted
    ELSE FALSE

\* ---- the clock
Advance(d) ==
    /\ calls < MaxCalls
    /\ calls' = calls + 1
    /\ now' = now + d
    /\ emitted' = << >>
    /\ returned' = << >>
    /\ UNCHANGED <<jobs, abortControllers, aborted, listeners, initialized,
                   initPromise, runs, reloads, db, timers, task, created,
                   contexts>>

\* ---- rows a previous process may have left in the jobs table
PriorRow(status, started, completed) ==
    [status |-> status, startedAt |-> started, completedAt |-> completed,
     progressCurrent |-> 0, progressTotal |-> 0, progressMessage |-> NULL,
     errorMessage |-> NULL]

PriorRows ==
    (<<"search", StartNow - StaleMs - 1>> :>
        PriorRow("running", StartNow - StaleMs - 1, NoDate))
    @@ (<<"embed", StartNow - RetentionMs - 1>> :>
        PriorRow("running", StartNow - RetentionMs - 1, NoDate))
    @@ (<<"embed", StartNow - 2>> :>
        PriorRow("completed", StartNow - 2, StartNow - 1))

\* cancelJob takes any id (the cancellation endpoint passes what it is sent);
\* updateProgress and completeJob are called by an operation on its own job
CancelTargets == DOMAIN jobs \cup {GhostId}
OwnTargets == {x.jobId : x \in contexts}

TrackerInit ==
    /\ now = StartNow
    /\ jobs = EmptyMap
    /\ abortControllers = EmptyMap
    /\ aborted = {}
    /\ listeners = {}
    /\ initialized = FALSE
    /\ initPromise = 0
    /\ runs = << >>
    /\ reloads = 0
    /\ db \in {EmptyMap, PriorRows}
    /\ timers = << >>
    /\ task = [c \in Callers |-> IdleTask]
    /\ created = 0
    /\ calls = 0
    /\ contexts = {}
    /\ emitted = << >>
    /\ returned = << >>

(***************************************************************************)
(* Part II.  The search session engine.                                    *)
(*                                                                         *)
(* One searchCommand runs at a time (the CLI process); the stores outlive  *)
(* it.  Strings are modelled by what the code reads of them: a record id   *)
(* is its sequence of digits (ids are compared as strings), a variant is a *)
(* name with a length and a lower-case form, the text of an item is the    *)
(* set of lower-case terms that occur in it.                               *)
(***************************************************************************)

VARIABLES
    topics,     \* search_topics: row i has id i (autoincrement)
    creator,    \* a createTopic call of another client, in flight
    source,     \* the external source: the items it can yield, how many it yields
    sessions,   \* search_sessions: row i has id i (autoincrement)
    tweets,     \* tweets: the ids of the stored records
    users,      \* users: the usernames stored
    fresh,      \* the users created less than a second ago
    origins,    \* tweet_search_origins: the rows
    foreignKeys,\* PRAGMA foreign_keys of the connections: the store enforces
                \* the REFERENCES clauses of its tables
    command,    \* the searchCommands in flight: the locals and the position
                \* of each
    result,     \* what a command or a store call returned in this step
    used,       \* how much of each bound of the model has been used
    history     \* history of each command, read by the properties only

searchVars == <<topics, creator, source, sessions, tweets, users, fresh, origins,
                foreignKeys, command, result, used, history>>

\* ---- bounds of the model
MaxYield == 3        \* items the source yields in one behaviour
TargetYields == 5    \* items the source yields where the target is examined
MaxCommands == 2     \* searchCommand invocations
MaxSessions == 1     \* sessions created where one session is examined
MaxFaults == 1       \* source errors and store calls of other clients
MaxRequests == 4     \* requests to the source that are counted
ServiceYields == 2   \* items the source yields to a search that has a job
StartYields == 1     \* items the source yields where the start is examined
ResumeYields == 2    \* items the source yields where the resume is examined

\* ---- program constants
CheckpointEvery == 50
DefaultMaxLength == 450
Overhead == 100

NoTweetId == << >>
Truthy(s) == s # NULL /\ s # ""

\* ---- variants: name, length of the string, lower-case form
Length(v) ==
    CASE v = "AGI" -> 3 [] v = "GPT-5" -> 5 [] v = "A200" -> 200
      [] v = "B200" -> 200 [] v = "C138" -> 138 [] v = "D139" -> 139
      [] v = "E397" -> 397 [] v = "F398" -> 398 [] v = "agi" -> 3
toLowerCase(v) ==
    CASE v = "AGI" -> "agi" [] v = "GPT-5" -> "gpt-5" [] v = "A200" -> "a200"
      [] v = "B200" -> "b200" [] v = "C138" -> "c138" [] v = "D139" -> "d139"
      [] v = "E397" -> "e397" [] v = "F398" -> "f398" [] v = "agi" -> "agi"

\* ---- parseSearchVariants: the query string is given by its comma-separated
\* ---- pieces; blank pieces are dropped
RECURSIVE parseSearchVariants(_)
parseSearchVariants(pieces) ==
    IF pieces = << >> THEN << >>
    ELSE IF Head(pieces) = "" THEN parseSearchVariants(Tail(pieces))
    ELSE << Head(pieces) >> \o parseSearchVariants(Tail(pieces))

\* ---- splitQuery: the loop over the variants, then the last group
RECURSIVE SplitLoop(_, _, _, _, _)
SplitLoop(variants, maxLength, groups, current, currentLength) ==
    IF variants = << >>
    THEN IF Len(current) > 0 THEN Append(groups, current) ELSE groups
    ELSE LET variant == Head(variants)
             addition == Length(variant) + 6
             full == currentLength + addition > maxLength - Overhead
                        /\ Len(current) > 0
         IN  SplitLoop(Tail(variants), maxLength,
                       IF full THEN Append(groups, current) ELSE groups,
                       IF full THEN << variant >> ELSE Append(current, variant),
                       IF full THEN addition ELSE currentLength + addition)

\* a variant of splitQuery that reserves nothing for the filters
splitQuery_NoOverhead(variants) ==
    SplitLoop(variants, DefaultMaxLength + Overhead, << >>, << >>, 0)

splitQuery(variants) == SplitLoop(variants, DefaultMaxLength, << >>, << >>, 0)

\* ---- buildTwitterQuery: the quoted group joined by OR, the date bounds when
\* ---- there is a range, then the retweet filter
buildTwitterQuery(group, dateRange) ==
    [terms |-> group, dates |-> dateRange, suffix |-> "-filter:retweets"]

twitterQueries(variants, dateRange) ==
    LET groups == splitQuery(variants)
    IN  [i \in 1..Len(groups) |-> buildTwitterQuery(groups[i], dateRange)]

\* ---- matchVariant: stable sort by length, longest first, then the first
\* ---- variant whose lower-case form occurs in the text
RECURSIVE InsertByLength(_, _)
InsertByLength(sorted, v) ==
    IF sorted = << >> THEN << v >>
    ELSE IF Length(Head(sorted)) >= Length(v)
         THEN << Head(sorted) >> \o InsertByLength(Tail(sorted), v)
         ELSE << v >> \o sorted

RECURSIVE SortByLength(_)
SortByLength(variants) ==
    IF variants = << >> THEN << >>
    ELSE InsertByLength(SortByLength(SubSeq(variants, 1, Len(variants) - 1)),
                        variants[Len(variants)])

RECURSIVE Find(_, _)
Find(sorted, text) ==
    IF sorted = << >> THEN NULL
    ELSE IF toLowerCase(Head(sorted)) \in text THEN Head(sorted)
    ELSE Find(Tail(sorted), text)

\* a matcher that takes the first variant that occurs, whatever its length
matchVariant_Unsorted(text, variants) == Find(variants, text)

matchVariant(text, variants) == Find(SortByLength(variants), text)

\* ---- string comparison of two ids (tweet.id <= cursorData.lastTweetId)
RECURSIVE LexLess(_, _)
LexLess(a, b) ==
    IF b = << >> THEN FALSE
    ELSE IF a = << >> THEN TRUE
    ELSE IF a[1] # b[1] THEN a[1] < b[1]
    ELSE LexLess(Tail(a), Tail(b))

LexLeq(a, b) == a = b \/ LexLess(a, b)

\* ---- Math.ceil(a / b)
Ceil(a, b) == (a + b - 1) \div b

\* ---- items of the source (a Tweet of the scraper library)
Item(id, hasText, text, username) ==
    [id |-> id, hasText |-> hasText, text |-> text, username |-> username]
NoItem == Item(NoTweetId, FALSE, {}, NULL)

Catalog ==
    { Item(<<1>>, TRUE, {"agi"}, "alice"),
      Item(<<1, 1>>, TRUE, {"agi", "gpt-5"}, NULL),
      Item(<<9>>, TRUE, {}, NULL),
      Item(<<2>>, TRUE, {"gpt-5"}, NULL),
      Item(NoTweetId, TRUE, {"agi"}, NULL),
      Item(<<2>>, FALSE, {}, NULL) }

\* a source that yields few kinds of items, and many of them
LongCatalog ==
    { Item(<<1>>, TRUE, {"agi"}, "alice"),
      Item(<<2>>, TRUE, {"gpt-5"}, NULL) }

\* ---- the options of a searchCommand: the query by its comma-separated
\* ---- pieces, --max-tweets, the date range calculateSearchDateRange gives
\* ---- calculateSearchDateRange: --days with --since or --until throws
DateConflict == "Cannot use --days with --since/--until"

calculateSearchDateRange(days, since, until) ==
    IF days # NULL /\ (Truthy(since) \/ Truthy(until)) THEN DateConflict
    ELSE IF days # NULL THEN "now-7d..now"
    ELSE IF Truthy(since) /\ Truthy(until) THEN "2024-12-22..2024-12-29"
    ELSE IF Truthy(since) THEN "2024-12-22..now"
    ELSE IF Truthy(until) THEN "1970-01-01..2024-12-29"
    ELSE NULL

\* given: options.query is set; name: --name; dryRun: --dry-run;
\* resume: --resume <id> (0: not set)
Request(pieces, maxTweets, dateRange) ==
    [given |-> TRUE, pieces |-> pieces, maxTweets |-> maxTweets,
     dateRange |-> dateRange, dryRun |-> FALSE, name |-> NULL, resume |-> 0,
     cleanup |-> FALSE]

NoRequest == [Request(<< >>, 0, NULL) EXCEPT !.given = FALSE]

Options(given, pieces, maxTweets, days, since, until, dryRun, name) ==
    [Request(pieces, maxTweets, calculateSearchDateRange(days, since, until))
        EXCEPT !.given = given, !.dryRun = dryRun, !.name = name]

Requests ==
    { Request(<<"AGI", "", "GPT-5">>, 3, NULL),
      Request(<<"AGI">>, 1, "2024-12-22..2024-12-29"),
      Request(<<"A200", "B200">>, 3, NULL),
      Request(<<"", "">>, 3, NULL),
      Request(<<"AGI">>, 0, NULL) }

CursorInputs == { <<2>> }
OriginVariants == { "GPT-5" }

\* ---- SearchStats
Stats(collected, processed, duplicates, newUsers) ==
    [tweetsCollected |-> collected, totalProcessed |-> processed,
     duplicatesSkipped |-> duplicates, usersCreated |-> newUsers]
NoStats == Stats(0, 0, 0, 0)

\* ---- searchSessionQueries
NewSession(query, variants, req) ==
    [query |-> query, variants |-> variants, maxTweets |-> req.maxTweets,
     dateRange |-> req.dateRange, cursor |-> NULL, lastTweetId |-> NoTweetId,
     tweetsCollected |-> 0, totalProcessed |-> 0, duplicatesSkipped |-> 0,
     usersCreated |-> 0, status |-> "running", completedAt |-> FALSE,
     embeddingsGenerated |-> FALSE, topicId |-> 0, startedDaysAgo |-> 0,
     startedThisSecond |-> TRUE, deleted |-> FALSE]

\* ---- started_at holds whole seconds.  The row was made startedDaysAgo days
\* ---- before the second the clock shows if startedThisSecond, and some
\* ---- seconds earlier than that if not.  When the clock shows a later
\* ---- second, no row was made in that second
Later(rows) == [i \in DOMAIN rows |-> [rows[i] EXCEPT !.startedThisSecond = FALSE]]

\* ---- row i of search_sessions is there: ids are never given again
\* ---- (AUTOINCREMENT), a deleted row keeps its place
InTable(rows, id) == id \in DOMAIN rows /\ ~rows[id].deleted

getSessionById(id) ==
    IF InTable(sessions, id) THEN << sessions[id] >> ELSE << >>

saveCursor(rows, sessionId, cursor, lastTweetId) ==
    [i \in DOMAIN rows |->
        IF i = sessionId /\ InTable(rows, i)
        THEN [rows[i] EXCEPT !.cursor = cursor, !.lastTweetId = lastTweetId]
        ELSE rows[i]]

NoCursor == [cursor |-> NULL, lastTweetId |-> NoTweetId]

getCursor(rows, sessionId) ==
    IF InTable(rows, sessionId) /\ Truthy(rows[sessionId].cursor)
            /\ rows[sessionId].lastTweetId # NoTweetId
    THEN [cursor |-> rows[sessionId].cursor,
          lastTweetId |-> rows[sessionId].lastTweetId]
    ELSE NoCursor

SetStatus(rows, id, status) ==
    [i \in DOMAIN rows |->
        IF i = id /\ InTable(rows, i)
        THEN [rows[i] EXCEPT !.status = status] ELSE rows[i]]

SetCompleted(rows, id, stats) ==
    [i \in DOMAIN rows |->
        IF i = id /\ InTable(rows, i)
        THEN [rows[i] EXCEPT !.tweetsCollected = stats.tweetsCollected,
                             !.totalProcessed = stats.totalProcessed,
                             !.duplicatesSkipped = stats.duplicatesSkipped,
                             !.usersCreated = stats.usersCreated,
                             !.status = "completed", !.completedAt = TRUE]
        ELSE rows[i]]

SetEmbedded(rows, id) ==
    [i \in DOMAIN rows |->
        IF i = id /\ InTable(rows, i)
        THEN [rows[i] EXCEPT !.embeddingsGenerated = TRUE]
        ELSE rows[i]]

HasOrigin_PerSession(rows, data) ==
    \E o \in rows : o.tweetId = data.tweetId
                        /\ o.searchSessionId = data.searchSessionId

\* ---- tweetOriginQueries.recordTweetOrigin: the insert fails on the UNIQUE
\* ---- column tweet_id, and that failure is answered with false
HasOrigin(rows, data) == \E o \in rows : o.tweetId = data.tweetId

\* ---- tweet_id REFERENCES tweets(id), search_session_id REFERENCES
\* ---- search_sessions(id): with foreign keys enforced, an insert that
\* ---- names a record or a session that is not there fails
Dangling(data) ==
    /\ foreignKeys
    /\ data.tweetId \notin tweets \/ ~InTable(sessions, data.searchSessionId)

\* ---- the UNIQUE failure is raised as the row is written and is answered
\* ---- with false; the FOREIGN KEY failure is raised when the statement
\* ---- ends and is thrown again
recordTweetOrigin(rows, data) ==
    IF HasOrigin(rows, data)
    THEN [ok |-> FALSE, thrown |-> FALSE, rows |-> rows]
    ELSE IF Dangling(data)
    THEN [ok |-> FALSE, thrown |-> TRUE, rows |-> rows]
    ELSE [ok |-> TRUE, thrown |-> FALSE, rows |-> rows \cup {data}]

Origin(tweetId, sessionId, variant) ==
    [tweetId |-> tweetId, searchSessionId |-> sessionId,
     matchedVariant |-> variant]

\* ---- the command in flight
IdleRun ==
    [op |-> "idle", pc |-> "idle", sid |-> 0, variants |-> << >>,
     queries |-> << >>, qi |-> 0, max |-> 0, limit |-> 0, stats |-> NoStats,
     item |-> NoItem, lastTweetId |-> NoTweetId, name |-> NULL, topic |-> 0,
     dateRange |-> NULL, topicTotal |-> 0, waitMs |-> 0]

\* req: the options of the command; io: it has called a store or the source
NoHistory ==
    [requests |-> 0, pulls |-> 0, inStore |-> 0, availInStore |-> 0,
     availNew |-> 0, raced |-> FALSE, failed |-> FALSE, fatal |-> FALSE,
     req |-> NoRequest, io |-> FALSE, itemFailed |-> FALSE, own |-> {}]

Began(req) == [NoHistory EXCEPT !.req = req]

\* ---- the searchCommand calls that can be in flight at once: the HTTP routes
\* ---- await searchCommand per request, and nothing serializes the requests
Commands == 1..MaxCommands

\* command c takes its step; the other commands stay where they are
Becomes(c, r) == command' = [command EXCEPT ![c] = r]
Records(c, h) == history' = [history EXCEPT ![c] = h]

\* command c's write has crossed the commands in `lost`, which hold what they
\* read before it
RecordsRace(c, h, lost) ==
    history' = [d \in Commands |->
                   IF d = c THEN h
                   ELSE IF d \in lost THEN [history[d] EXCEPT !.raced = TRUE]
                   ELSE history[d]]

\* ---- what command c returns (by: the command; 0: another client)
OutcomeOf(c, op, sid, success, message, stats) ==
    << [by |-> c, op |-> op, sid |-> sid, success |-> success,
        message |-> message, stats |-> stats, data |-> NoTweetId] >>

Outcome(op, sid, success, message, stats) ==
    OutcomeOf(0, op, sid, success, message, stats)

Answer(op, data, ok) ==
    << [by |-> 0, op |-> op, sid |-> data.searchSessionId, success |-> ok,
        message |-> data.matchedVariant, stats |-> NoStats,
        data |-> data.tweetId] >>

\* ---- a new command runs as the first of Commands that is not in flight
CommandFree(c) ==
    /\ command[c].op = "idle"
    /\ \A d \in 1..(c - 1) : command[d].op # "idle"
    /\ used.commands < MaxCommands

Bump(field) == [used EXCEPT ![field] = used[field] + 1]

\* the loop moves to the next query, or leaves the loop after the last one
NextQuery(r) ==
    [r EXCEPT !.qi = r.qi + 1, !.item = NoItem,
              !.pc = IF r.qi + 1 > Len(r.queries) THEN "done" ELSE "request"]

\* the end of one query: executeSearch tests the target again (line 334),
\* resumeSearch goes on with the next query
AfterQuery(r) ==
    IF r.op = "search" /\ r.stats.tweetsCollected >= r.max
    THEN [r EXCEPT !.pc = "done", !.item = NoItem]
    ELSE NextQuery(r)

NextItem(r) == [r EXCEPT !.pc = "pull", !.item = NoItem]

\* ---- searchCommand: the validation that ends the command at once.  The
\* ---- error calculateSearchDateRange throws is caught at the end of
\* ---- searchCommand and returned as a failure.
\* a validation that does not look at the date options
Rejection_NoDateCheck(req) ==
    IF ~req.given THEN "Search query required"
    ELSE IF Len(parseSearchVariants(req.pieces)) = 0
    THEN "At least one search variant required"
    ELSE IF req.maxTweets <= 0 THEN "Max tweets must be greater than 0"
    ELSE NULL

Rejection(req) ==
    IF ~req.given THEN "Search query required"
    ELSE IF Len(parseSearchVariants(req.pieces)) = 0
    THEN "At least one search variant required"
    ELSE IF req.maxTweets <= 0 THEN "Max tweets must be greater than 0"
    ELSE IF req.dateRange = DateConflict THEN DateConflict
    ELSE NULL

SearchCommandRejects(c, req) ==
    /\ CommandFree(c)
    /\ Rejection(req) # NULL
    /\ used' = Bump("commands")
    /\ Records(c, Began(req))
    /\ result' = OutcomeOf(c, "search", 0, FALSE, Rejection(req), NoStats)
    /\ UNCHANGED <<topics, creator, source, sessions, tweets, users, fresh,
                   origins, foreignKeys, command>>

\* ---- searchCommand with --dry-run: handleDryRun puts the queries in the
\* ---- message it returns
HandleDryRun(c, req) ==
    /\ CommandFree(c)
    /\ Rejection(req) = NULL
    /\ req.dryRun
    /\ used' = Bump("commands")
    /\ Records(c, Began(req))
    /\ result' = << [by |-> c, op |-> "search", sid |-> 0, success |-> TRUE,
                     message |-> "Dry Run - Query Preview", stats |-> NoStats,
                     data |-> twitterQueries(parseSearchVariants(req.pieces),
                                             req.dateRange)] >>
    /\ UNCHANGED <<topics, creator, source, sessions, tweets, users, fresh,
                   origins, foreignKeys, command>>

\* ---- searchCommand: parse, split, build the queries; without --name the
\* ---- session is created at once, with --name the topic is looked up first
SearchCommandStarts(c, req) ==
    LET variants == parseSearchVariants(req.pieces)
        queries == twitterQueries(variants, req.dateRange)
        started == [IdleRun EXCEPT !.op = "search", !.variants = variants,
                                   !.queries = queries, !.max = req.maxTweets,
                                   !.dateRange = req.dateRange]
    IN  /\ CommandFree(c)
        /\ Rejection(req) = NULL
        /\ ~req.dryRun
        /\ used' = [used EXCEPT !.commands = @ + 1, !.sessions = @ + 1]
        /\ Records(c, [Began(req) EXCEPT !.io = TRUE])
        /\ IF req.name = NULL
           THEN /\ sessions' = Append(sessions,
                                      NewSession(queries, variants, req))
                /\ Becomes(c, [started EXCEPT !.pc = "auth",
                                          !.sid = Len(sessions) + 1])
           ELSE /\ sessions' = sessions
                /\ Becomes(c, [started EXCEPT !.pc = "topic", !.name = req.name])
        /\ result' = << >>
        /\ UNCHANGED <<topics, creator, source, tweets, users, fresh, origins,
                       foreignKeys>>

\* ---- searchTopicQueries.getTopicByName
TopicIds(rows, name) == { i \in DOMAIN rows : rows[i].name = name }

getTopicByName(rows, name) ==
    IF TopicIds(rows, name) = {} THEN 0
    ELSE CHOOSE i \in TopicIds(rows, name) :
            \A j \in TopicIds(rows, name) : i <= j

NewTopic(name, variants) ==
    [name |-> name, variants |-> variants, totalTweetsFound |-> 0]

\* the command ends in searchCommand's catch
CommandFails(c, message) ==
    LET run == command[c]
        seen == history[c]
    IN  /\ Becomes(c, IdleRun)
        /\ result' = OutcomeOf(c, "search", run.sid, FALSE, message, run.stats)
        /\ Records(c, [seen EXCEPT !.failed = TRUE])

\* ---- searchCommand, --name: an existing topic is used, a new one created
GetTopic(c) ==
    LET run == command[c]
    IN  /\ run.op = "search"
        /\ run.pc = "topic"
        /\ Becomes(c, IF getTopicByName(topics, run.name) # 0
                  THEN [run EXCEPT !.pc = "session",
                                   !.topic = getTopicByName(topics, run.name)]
                  ELSE [run EXCEPT !.pc = "createTopic"])
        /\ result' = << >>
        /\ UNCHANGED <<topics, creator, source, sessions, tweets, users, fresh,
                       origins, foreignKeys, used, history>>

\* ---- createTopic, called by searchCommand: the name is looked up again
CreateTopicChecks(c) ==
    LET run == command[c]
    IN  /\ run.op = "search"
        /\ run.pc = "createTopic"
        /\ IF getTopicByName(topics, run.name) # 0
           THEN CommandFails(c, "Topic already exists")
           ELSE /\ Becomes(c, [run EXCEPT !.pc = "insertTopic"])
                /\ result' = << >>
                /\ history' = history
        /\ UNCHANGED <<topics, creator, source, sessions, tweets, users, fresh,
                       origins, foreignKeys, used>>

\* ---- createTopic: the insert; the unique index on name rejects a second
\* ---- row of the name
CreateTopicInserts(c) ==
    LET run == command[c]
    IN  /\ run.op = "search"
        /\ run.pc = "insertTopic"
        /\ IF getTopicByName(topics, run.name) # 0
           THEN /\ CommandFails(c, "UNIQUE constraint failed: search_topics.name")
                /\ topics' = topics
           ELSE /\ topics' = Append(topics, NewTopic(run.name, run.variants))
                /\ Becomes(c, [run EXCEPT !.pc = "session", !.topic = Len(topics) + 1])
                /\ result' = << >>
                /\ history' = history
        /\ UNCHANGED <<creator, source, sessions, tweets, users, fresh,
                       origins, foreignKeys, used>>

\* ---- searchCommand, --name: the session of the topic is created
CreateSession(c) ==
    LET run == command[c]
    IN  /\ run.op = "search"
        /\ run.pc = "session"
        /\ sessions' = Append(sessions,
              [NewSession(run.queries, run.variants,
                          [maxTweets |-> run.max, dateRange |-> run.dateRange])
                  EXCEPT !.topicId = run.topic])
        /\ Becomes(c, [run EXCEPT !.pc = "auth", !.sid = Len(sessions) + 1])
        /\ result' = << >>
        /\ UNCHANGED <<topics, creator, source, tweets, users, fresh, origins,
                       foreignKeys, used, history>>

\* ---- executeSearch up to the loop: the credentials are read from the
\* ---- environment; without them it throws, and searchCommand's catch turns
\* ---- the error into a failure result
ExecuteSearchBegins(c, auth) ==
    LET run == command[c]
        seen == history[c]
    IN  /\ run.op = "search"
        /\ run.pc = "auth"
        /\ IF auth
           THEN /\ Becomes(c, [run EXCEPT !.pc = "request", !.qi = 1,
                              !.limit = Ceil(run.max, Len(run.queries))])
                /\ result' = << >>
                /\ history' = history
           ELSE /\ Becomes(c, IdleRun)
                /\ result' = OutcomeOf(c, "search", run.sid, FALSE,
                                     "AuthenticationError", run.stats)
                /\ Records(c, [seen EXCEPT !.failed = TRUE])
        /\ UNCHANGED <<topics, creator, source, sessions, tweets, users, fresh,
                       origins, foreignKeys, used>>

\* ---- the errors the source raises, each as the sequence of the words of
\* ---- its message (lower case, in the message's order)
RateLimitExceeded == <<"429", "rate limit">>
RetryAfterTwo == <<"rate limit", "retry after", "2">>
RetryAfterZero == <<"rate limit", "retry after", "0">>
Unauthorized == <<"401", "unauthorized">>
BadRequest == <<"400">>
ConnectionReset == <<"econnreset">>
ServiceUnavailable == <<"503", "temporarily", "unavailable">>
Unexpected == <<"unexpected">>
BadGateway == <<"502", "bad", "gateway">>
SessionExpired == <<"session", "expired">>
UserNotFound == <<"user", "not", "found">>
UnavailableTemporarily == <<"unavailable", "temporarily">>

SourceErrors == {RateLimitExceeded, RetryAfterTwo, RetryAfterZero,
                 Unauthorized, ConnectionReset}

\* ---- the words of the messages that hold a fragment of a pattern inside
\* ---- them: <<fragment, word, from, to>>, the fragment is the characters
\* ---- from..(to - 1) of the word
Within == {<<"failed", "fetch failed", 6, 12>>,
           <<"request", "too many requests", 9, 16>>,
           <<"auth", "unauthorized", 2, 6>>,
           <<"auth", "authentication", 0, 4>>,
           <<"not", "enotfound", 1, 4>>, <<"found", "enotfound", 4, 9>>,
           <<"in", "try again later", 7, 9>>, <<"in", "internal", 0, 2>>,
           <<"in", "invalid", 0, 2>>, <<"in", "input", 0, 2>>,
           <<"in", "missing", 4, 6>>}

\* ---- where a fragment occurs inside a word
Occurrences(word, fragment) ==
    {o \in Within : o[1] = fragment /\ o[2] = word}

\* ---- String.prototype.includes on one word of the message
includes(word, fragment) ==
    word = fragment \/ Occurrences(word, fragment) # {}

\* ---- isRateLimitError: message.toLowerCase().includes(...)
isRateLimitError(error) ==
    \E fragment \in {"rate limit", "too many requests", "429"} :
        \E i \in DOMAIN error : includes(error[i], fragment)

\* ---- parseInt(digits, 10) of a sequence of digits
Digits == <<"0", "1", "2", "3", "4", "5", "6", "7", "8", "9">>
IsDigit(ch) == \E d \in DOMAIN Digits : Digits[d] = ch
DigitValue(ch) == (CHOOSE d \in DOMAIN Digits : Digits[d] = ch) - 1

RECURSIVE parseInt(_)
parseInt(chars) ==
    IF chars = << >> THEN 0
    ELSE parseInt(SubSeq(chars, 1, Len(chars) - 1)) * 10
            + DigitValue(chars[Len(chars)])

\* ---- the words of the messages that are written in digits, with their
\* ---- characters
Numerals == {<<"0", <<"0">>>>, <<"2", <<"2">>>>,
             <<"400", <<"4", "0", "0">>>>, <<"401", <<"4", "0", "1">>>>,
             <<"429", <<"4", "2", "9">>>>, <<"502", <<"5", "0", "2">>>>,
             <<"503", <<"5", "0", "3">>>>}

Spelled(word) == (CHOOSE n \in Numerals : n[1] = word)[2]

\* ---- /retry after (\d+)/: the places of the message where the words
\* ---- "retry after" are followed, after one space, by a number
RetryAfterMatches(error) ==
    {i \in DOMAIN error : /\ error[i] = "retry after"
                          /\ i < Len(error)
                          /\ \E n \in Numerals : n[1] = error[i + 1]}

\* ---- waitForRateLimitReset: the time it waits, sixty seconds unless the
\* ---- message says "retry after" and a number of seconds (the words of a
\* ---- message are separated by one space, and the first place the
\* ---- pattern matches is the one that counts)
waitMs(error) ==
    LET matches == RetryAfterMatches(error)
        first == CHOOSE i \in matches : \A j \in matches : i <= j
    IN  IF /\ \E i \in DOMAIN error : includes(error[i], "retry after")
           /\ matches # {}
        THEN parseInt(Spelled(error[first + 1])) * 1000
        ELSE 60000

RateLimitErrors == {error \in SourceErrors : isRateLimitError(error)}

\* ---- the catch of both loops: the rate limit starts the wait
Waiting(r, error) == [r EXCEPT !.pc = "wait", !.waitMs = waitMs(error)]

\* ---- ERROR_PATTERNS: a pattern is the sequence of the fragments that .*
\* ---- separates; /rate.?limit/ accepts "rate limit", "ratelimit" and
\* ---- "rate-limit"
NetworkPatterns == {<<"econnrefused">>, <<"enotfound">>, <<"etimedout">>,
                    <<"econnreset">>, <<"enetunreach">>, <<"ehostunreach">>,
                    <<"socket hang up">>, <<"network">>,
                    <<"connection", "failed">>, <<"fetch failed">>,
                    <<"request", "timeout">>, <<"dns", "lookup", "failed">>}
RateLimitPatterns == {<<"rate limit">>, <<"ratelimit">>, <<"rate-limit">>,
                      <<"too many requests">>, <<"429">>,
                      <<"quota", "exceeded">>,
                      <<"temporarily", "unavailable">>,
                      <<"try again later">>}
TemporaryPatterns == {<<"500">>, <<"502">>, <<"503">>, <<"504">>,
                      <<"internal", "server", "error">>,
                      <<"service", "unavailable">>,
                      <<"gateway", "timeout">>, <<"bad", "gateway">>,
                      <<"temporarily">>}
AuthenticationPatterns == {<<"401">>, <<"403">>, <<"unauthorized">>,
                           <<"forbidden">>, <<"invalid", "token">>,
                           <<"auth", "token">>, <<"authentication">>,
                           <<"not", "logged", "in">>,
                           <<"session", "expired">>}
ValidationPatterns == {<<"400">>, <<"422">>, <<"invalid", "input">>,
                       <<"validation", "error">>,
                       <<"required", "parameter">>,
                       <<"missing", "argument">>, <<"invalid", "format">>,
                       <<"user", "not", "found">>,
                       <<"does", "not", "exist">>}

\* ---- pattern.test(errorMessage): the fragments of the pattern are found
\* ---- in the message, in the pattern's order, one after the end of the
\* ---- other: in a later word, or later in the same word (.* matches
\* ---- nothing as well)
RECURSIVE testFrom(_, _, _)
testFrom(pattern, errorMessage, at) ==
    IF pattern = << >> THEN TRUE
    ELSE IF errorMessage = << >> THEN FALSE
    ELSE \/ /\ Head(errorMessage) = Head(pattern)
            /\ at = 0
            /\ testFrom(Tail(pattern), Tail(errorMessage), 0)
         \/ \E o \in Occurrences(Head(errorMessage), Head(pattern)) :
              o[3] >= at /\ testFrom(Tail(pattern), errorMessage, o[4])
         \/ testFrom(pattern, Tail(errorMessage), 0)

test(pattern, errorMessage) == testFrom(pattern, errorMessage, 0)

Some(patterns, error) == \E pattern \in patterns : test(pattern, error)

Classification(type, shouldRetry, suggestedDelay) ==
    [type |-> type, shouldRetry |-> shouldRetry,
     suggestedDelay |-> suggestedDelay]

\* ---- classifyError: the lists are tried in this order
classifyError(error) ==
    IF Some(NetworkPatterns, error)
    THEN Classification("NETWORK", TRUE, 2000)
    ELSE IF Some(RateLimitPatterns, error)
    THEN Classification("RATE_LIMIT", TRUE, 60000)
    ELSE IF Some(TemporaryPatterns, error)
    THEN Classification("TEMPORARY", TRUE, 5000)
    ELSE IF Some(AuthenticationPatterns, error)
    THEN Classification("AUTHENTICATION", FALSE, 0)
    ELSE IF Some(ValidationPatterns, error)
    THEN Classification("VALIDATION", FALSE, 0)
    ELSE Classification("UNKNOWN", TRUE, 3000)

Fatal(error) == classifyError(error).type \in {"AUTHENTICATION", "VALIDATION"}

\* ---- scraper.searchTweets(query, limit, mode): a request to the source
SourceRequest(c) ==
    LET run == command[c]
        seen == history[c]
    IN  /\ run.pc = "request"
        /\ Becomes(c, [run EXCEPT !.pc = "pull"])
        /\ Records(c, [seen EXCEPT !.requests =
                       IF seen.requests < MaxRequests THEN seen.requests + 1
                       ELSE seen.requests])
        /\ result' = << >>
        /\ UNCHANGED <<topics, creator, source, sessions, tweets, users, fresh,
                       origins, foreignKeys, used>>

\* ---- the source yields an item
SourceYields(c, item) ==
    LET run == command[c]
        seen == history[c]
    IN  /\ run.pc = "pull"
        /\ run.qi \notin source.limited
        /\ used.yielded < source.yields
        /\ item \in source.items
        /\ used' = Bump("yielded")
        /\ Becomes(c, [run EXCEPT !.pc = "item", !.item = item])
        /\ Records(c, [seen EXCEPT !.pulls = seen.pulls + 1])
        /\ result' = << >>
        /\ UNCHANGED <<topics, creator, source, sessions, tweets, users, fresh,
                       origins, foreignKeys>>

\* ---- the source has no more items for this query
SourceEnds(c) ==
    LET run == command[c]
    IN  /\ run.pc = "pull"
        /\ run.qi \notin source.limited
        /\ Becomes(c, AfterQuery(run))
        /\ result' = << >>
        /\ UNCHANGED <<topics, creator, source, sessions, tweets, users, fresh,
                       origins, foreignKeys, used, history>>

\* ---- the source raises: a rate limit starts the wait; any other error is
\* ---- logged and the loop continues with the next query
SourceThrows(c, error) ==
    LET run == command[c]
        seen == history[c]
    IN  /\ run.pc = "pull"
        /\ run.qi \notin source.limited
        /\ used.faults < MaxFaults
        /\ used' = Bump("faults")
        /\ Becomes(c, IF isRateLimitError(error) THEN Waiting(run, error)
                  ELSE NextQuery(run))
        /\ Records(c, [seen EXCEPT !.failed = TRUE,
                                !.fatal = seen.fatal \/ Fatal(error)])
        /\ result' = << >>
        /\ UNCHANGED <<topics, creator, source, sessions, tweets, users, fresh,
                       origins, foreignKeys>>

\* ---- a sub-query that the source answers with a rate-limit error every
\* ---- time it is asked
SourceRateLimited(c, error) ==
    LET run == command[c]
        seen == history[c]
    IN  /\ run.pc = "pull"
        /\ run.qi \in source.limited
        /\ Becomes(c, Waiting(run, error))
        /\ Records(c, [seen EXCEPT !.failed = TRUE])
        /\ result' = << >>
        /\ UNCHANGED <<topics, creator, source, sessions, tweets, users, fresh,
                       origins, foreignKeys, used>>

\* ---- the timer of waitForRateLimitReset has fired, the time it waits
\* ---- having passed: executeSearch steps its index back and asks for the
\* ---- same query again, resumeSearch continues its for-of loop, which
\* ---- takes the next query
RateLimitWaitEnds(c) ==
    LET run == command[c]
    IN  /\ run.pc = "wait"
        /\ run.waitMs = 0
        /\ Becomes(c, IF run.op = "search" THEN [run EXCEPT !.pc = "request"]
                      ELSE NextQuery(run))
        /\ result' = << >>
        /\ UNCHANGED <<topics, creator, source, sessions, tweets, users, fresh,
                       origins, foreignKeys, used, history>>

CursorSkips_Strict(id, lastTweetId) == id # NoTweetId /\ LexLess(id, lastTweetId)

\* ---- resumeSearch: tweet.id && tweet.id <= cursorData.lastTweetId
CursorSkips(id, lastTweetId) == id # NoTweetId /\ LexLeq(id, lastTweetId)

Counted(r) ==
    [r EXCEPT !.stats.totalProcessed = r.stats.totalProcessed + 1]

\* ---- the head of the loop body: the cursor filter (resume only), the
\* ---- examined count, the test for an unavailable item
ExamineItem(c) ==
    LET run == command[c]
        seen == history[c]
    IN  /\ run.pc = "item"
        /\ IF run.op = "resume" /\ CursorSkips(run.item.id, run.lastTweetId)
           THEN /\ Becomes(c, NextItem(run))
                /\ history' = history
           ELSE /\ Becomes(c, IF run.item.id = NoTweetId \/ ~run.item.hasText
                          THEN NextItem(Counted(run))
                          ELSE [Counted(run) EXCEPT !.pc = "exists"])
                /\ Records(c, [seen EXCEPT
                     !.inStore = IF run.item.id \in tweets THEN @ + 1 ELSE @,
                     !.availInStore =
                         IF run.item.id # NoTweetId /\ run.item.hasText
                                /\ run.item.id \in tweets THEN @ + 1 ELSE @,
                     !.availNew =
                         IF run.item.id # NoTweetId /\ run.item.hasText
                                /\ run.item.id \notin tweets THEN @ + 1 ELSE @])
        /\ result' = << >>
        /\ UNCHANGED <<topics, creator, source, sessions, tweets, users, fresh,
                       origins, foreignKeys, used>>

\* an existence check that finds nothing
TweetExists_Blind(c) ==
    LET run == command[c]
    IN  /\ run.pc = "exists"
        /\ Becomes(c, [run EXCEPT !.pc = "upsert"])
        /\ result' = << >>
        /\ UNCHANGED <<topics, creator, source, sessions, tweets, users, fresh,
                       origins, foreignKeys, used, history>>

TweetExists_NoCount(c) ==
    LET run == command[c]
    IN  /\ run.pc = "exists"
        /\ Becomes(c, IF run.item.id \in tweets THEN NextItem(run)
                  ELSE [run EXCEPT !.pc = "upsert"])
        /\ result' = << >>
        /\ UNCHANGED <<topics, creator, source, sessions, tweets, users, fresh,
                       origins, foreignKeys, used, history>>

\* ---- tweetQueries.tweetExists
TweetExists(c) ==
    LET run == command[c]
    IN  /\ run.pc = "exists"
        /\ Becomes(c, IF run.item.id \in tweets
                  THEN NextItem([run EXCEPT !.stats.duplicatesSkipped = @ + 1])
                  ELSE [run EXCEPT !.pc = "upsert"])
        /\ result' = << >>
        /\ UNCHANGED <<topics, creator, source, sessions, tweets, users, fresh,
                       origins, foreignKeys, used, history>>

Username(item) == IF item.username = NULL THEN "unknown" ELSE item.username

\* ---- userQueries.upsertUser: the select.  An existing user is updated
\* ---- after the await, a user that is not there is inserted
UpsertUser(c) ==
    LET run == command[c]
    IN  /\ run.pc = "upsert"
        /\ Becomes(c, IF Username(run.item) \in users
                  THEN [run EXCEPT !.pc = "userUpdate"]
                  ELSE [run EXCEPT !.pc = "userInsert"])
        /\ result' = << >>
        /\ UNCHANGED <<topics, creator, source, sessions, tweets, users, fresh,
                       origins, foreignKeys, used, history>>

\* ---- userQueries.upsertUser: the update of the existing user.  It writes
\* ---- lastScraped, updatedAt and the profile, none of which is read again
UpdateUser(c) ==
    LET run == command[c]
    IN  /\ run.pc = "userUpdate"
        /\ Becomes(c, [run EXCEPT !.pc = "user"])
        /\ result' = << >>
        /\ UNCHANGED <<topics, creator, source, sessions, tweets, users, fresh,
                       origins, foreignKeys, used, history>>

\* ---- userQueries.upsertUser: the insert.  users.username is unique: when
\* ---- another writer has created the user since the select, the insert
\* ---- throws, outside the try around insertTweets, and the catch around
\* ---- the for-await loop logs the error and continues with the next query
InsertUser(c) ==
    LET run == command[c]
        seen == history[c]
    IN  /\ run.pc = "userInsert"
        /\ IF Username(run.item) \in users
           THEN /\ Becomes(c, NextQuery(run))
                /\ users' = users
                /\ fresh' = fresh
                /\ Records(c, [seen EXCEPT !.failed = TRUE])
           ELSE /\ users' = users \cup {Username(run.item)}
                /\ fresh' = fresh \cup {Username(run.item)}
                /\ Becomes(c, [run EXCEPT !.pc = "user"])
                /\ RecordsRace(c, seen,
                      {d \in Commands :
                          /\ command[d].pc \in {"upsert", "userInsert"}
                          /\ Username(command[d].item) = Username(run.item)})
        /\ result' = << >>
        /\ UNCHANGED <<topics, creator, source, sessions, tweets, origins,
                       foreignKeys, used>>

\* ---- upsertUser has resolved: user.createdAt.getTime() > Date.now() - 1000
\* ---- is tested now, with the clock as it is when the store has answered
UpsertUserReturns(c) ==
    LET run == command[c]
    IN  /\ run.pc = "user"
        /\ Becomes(c, [run EXCEPT !.pc = "insert",
                     !.stats.usersCreated =
                         IF Username(run.item) \in fresh THEN @ + 1 ELSE @])
        /\ result' = << >>
        /\ UNCHANGED <<topics, creator, source, sessions, tweets, users, fresh,
                       origins, foreignKeys, used, history>>

\* ---- a store call made for the item in hand rejects with an error that is
\* ---- not a uniqueness violation (the database is locked, the disk is
\* ---- full): the catch around the for-await loop logs it and continues
\* ---- with the next query
ItemThrows(c) ==
    LET run == command[c]
        seen == history[c]
    IN  /\ run.pc \in {"exists", "upsert", "userUpdate", "userInsert", "insert",
                     "origin", "checkpoint"}
        /\ used.faults < MaxFaults
        /\ used' = Bump("faults")
        /\ Becomes(c, NextQuery(run))
        /\ Records(c, [seen EXCEPT !.failed = TRUE, !.itemFailed = TRUE])
        /\ result' = << >>
        /\ UNCHANGED <<topics, creator, source, sessions, tweets, users, fresh,
                       origins, foreignKeys>>

\* ---- tweetQueries.insertTweets: the primary key rejects an id that another
\* ---- writer has stored since the existence check (UNIQUE constraint)
InsertTweet(c) ==
    LET run == command[c]
        seen == history[c]
    IN  /\ run.pc = "insert"
        /\ IF run.item.id \in tweets
           THEN /\ Becomes(c, NextItem([run EXCEPT !.stats.duplicatesSkipped = @ + 1]))
                /\ tweets' = tweets
                /\ history' = history
           ELSE /\ Becomes(c, [run EXCEPT !.pc = "origin"])
                /\ tweets' = tweets \cup {run.item.id}
                /\ RecordsRace(c,
                      [seen EXCEPT
                          !.own = @ \cup {<<run.item.id, seen.requests>>}],
                      {d \in Commands :
                          /\ command[d].pc \in {"exists", "upsert", "userUpdate",
                                                "userInsert", "user", "insert"}
                          /\ command[d].item.id = run.item.id})
        /\ result' = << >>
        /\ UNCHANGED <<topics, creator, source, sessions, users, fresh,
                       origins, foreignKeys, used>>

MatchedVariant(r) ==
    IF matchVariant(r.item.text, r.variants) = NULL
    THEN r.variants[1] ELSE matchVariant(r.item.text, r.variants)

\* ---- stats.tweetsCollected >= options.maxTweets: break
TargetTest(r) ==
    IF r.stats.tweetsCollected >= r.max THEN AfterQuery(r) ELSE NextItem(r)

\* ---- recordTweetOrigin and the collected count; every 50th examined item
\* ---- the checkpoint is saved after an await, otherwise the target is
\* ---- tested at once. When recordTweetOrigin throws, the catch around the
\* ---- for-await loop logs the error and continues with the next query
RecordOrigin(c) ==
    LET run == command[c]
        seen == history[c]
    IN  LET counted == [run EXCEPT !.stats.tweetsCollected = @ + 1]
            data == Origin(run.item.id, run.sid, MatchedVariant(run))
        IN  /\ run.pc = "origin"
            /\ origins' = recordTweetOrigin(origins, data).rows
            /\ IF recordTweetOrigin(origins, data).thrown
               THEN /\ Becomes(c, NextQuery(run))
                    /\ Records(c, [seen EXCEPT !.failed = TRUE,
                                               !.itemFailed = TRUE])
               ELSE /\ Becomes(c,
                          IF counted.stats.totalProcessed % CheckpointEvery = 0
                          THEN [counted EXCEPT !.pc = "checkpoint"]
                          ELSE TargetTest(counted))
                    /\ history' = history
            /\ result' = << >>
            /\ UNCHANGED <<topics, creator, source, sessions, tweets, users,
                           fresh, foreignKeys, used>>

\* ---- searchSessionQueries.saveCursor of the checkpoint, then the target
SaveCheckpoint(c) ==
    LET run == command[c]
    IN  /\ run.pc = "checkpoint"
        /\ sessions' = saveCursor(sessions, run.sid, "", run.item.id)
        /\ Becomes(c, TargetTest(run))
        /\ result' = << >>
        /\ UNCHANGED <<topics, creator, source, tweets, users, fresh, origins,
                       foreignKeys, used, history>>

\* ---- executeSearch returns its stats; options.embed is read now
ExecuteSearchReturns(c, embed) ==
    LET run == command[c]
    IN  /\ run.op = "search"
        /\ run.pc = "done"
        /\ Becomes(c, [run EXCEPT !.pc = IF embed /\ run.stats.tweetsCollected > 0
                                     THEN "embed" ELSE "finalize"])
        /\ result' = << >>
        /\ UNCHANGED <<topics, creator, source, sessions, tweets, users, fresh,
                       origins, foreignKeys, used, history>>

\* ---- embedCommand, then the session is flagged. embedCommand catches its
\* ---- own errors and returns a failure result (embed.ts 28-231), and
\* ---- searchCommand discards what it returns (search.ts 131): whether the
\* ---- embedding worked or not, the session is flagged and finalized
EmbedDone(c) ==
    LET run == command[c]
    IN  /\ run.op = "search"
        /\ run.pc = "embed"
        /\ sessions' = SetEmbedded(sessions, run.sid)
        /\ Becomes(c, [run EXCEPT !.pc = "finalize"])
        /\ result' = << >>
        /\ UNCHANGED <<topics, creator, source, tweets, users, fresh, origins,
                       foreignKeys, used, history>>

\* ---- searchCommand: the final updateSession and the result
FinalizeSession(c) ==
    LET run == command[c]
    IN  /\ run.op = "search"
        /\ run.pc = "finalize"
        /\ sessions' = SetCompleted(sessions, run.sid, run.stats)
        /\ IF run.topic # 0
           THEN /\ Becomes(c, [run EXCEPT !.pc = "topicStats"])
                /\ result' = << >>
           ELSE /\ Becomes(c, IdleRun)
                /\ result' = OutcomeOf(c, "search", run.sid, TRUE, "ok", run.stats)
        /\ UNCHANGED <<topics, creator, source, tweets, users, fresh, origins,
                       foreignKeys, used, history>>

\* ---- searchTopicQueries.updateTopicStats: the select of the topic row
UpdateTopicStatsSelect(c) ==
    LET run == command[c]
    IN  /\ run.op = "search"
        /\ run.pc = "topicStats"
        /\ Becomes(c, [run EXCEPT !.pc = "topicWrite",
                              !.topicTotal = topics[run.topic].totalTweetsFound])
        /\ result' = << >>
        /\ UNCHANGED <<topics, creator, source, sessions, tweets, users, fresh,
                       origins, foreignKeys, used, history>>

\* ---- the update: the total that was selected, plus tweetsFound
updateTopicStats(rows, id, total, tweetsFound) ==
    [i \in DOMAIN rows |->
        IF i = id
        THEN [rows[i] EXCEPT !.totalTweetsFound = total + tweetsFound]
        ELSE rows[i]]

\* ---- another command whose session is attached to the topic runs its
\* ---- updateTopicStats: the select of the topic row
OtherCollected == {1}

OtherSessionSelectsTopic(id) ==
    /\ creator.pc = "idle"
    /\ id \in DOMAIN topics
    /\ used.faults < MaxFaults
    /\ used' = Bump("faults")
    /\ creator' = [creator EXCEPT !.pc = "topicWrite", !.topic = id,
                       !.total = topics[id].totalTweetsFound]
    /\ result' = << >>
    /\ UNCHANGED <<topics, source, sessions, tweets, users, fresh, origins,
                   foreignKeys, command, history>>

\* ---- the update of the other command: the total it selected, plus the
\* ---- count it collected
OtherSessionUpdatesTopic(tweetsFound) ==
    /\ creator.pc = "topicWrite"
    /\ topics' = updateTopicStats(topics, creator.topic, creator.total,
                                  tweetsFound)
    /\ creator' = [creator EXCEPT !.pc = "idle", !.topic = 0, !.total = 0]
    /\ history' = [c \in Commands |->
                       [history[c] EXCEPT !.raced =
                           @ \/ (command[c].pc = "topicWrite"
                                    /\ command[c].topic = creator.topic)]]
    /\ result' = << >>
    /\ UNCHANGED <<source, sessions, tweets, users, fresh, origins,
                   foreignKeys, command, used>>

\* ---- the update of this command, then the result
UpdateTopicStats(c) ==
    LET run == command[c]
    IN  /\ run.op = "search"
        /\ run.pc = "topicWrite"
        /\ topics' = updateTopicStats(topics, run.topic, run.topicTotal,
                                      run.stats.tweetsCollected)
        /\ Becomes(c, IdleRun)
        /\ RecordsRace(c, history[c],
              {d \in Commands : /\ command[d].pc = "topicWrite"
                                /\ command[d].topic = run.topic})
        /\ result' = OutcomeOf(c, "search", run.sid, TRUE, "ok", run.stats)
        /\ UNCHANGED <<creator, source, sessions, tweets, users, fresh,
                       origins, foreignKeys, used>>

\* ---- parseDuration: /^(\d+)d$/, then parseInt; a duration is the
\* ---- sequence of its characters
parseDuration(duration) ==
    IF /\ Len(duration) >= 2
       /\ duration[Len(duration)] = "d"
       /\ \A i \in 1..(Len(duration) - 1) : IsDigit(duration[i])
    THEN [ok |-> TRUE, days |-> parseInt(SubSeq(duration, 1, Len(duration) - 1))]
    ELSE [ok |-> FALSE, days |-> 0]

\* ---- searchSessionQueries.cleanupOldSessions: the rows whose started_at
\* ---- is less than the cut-off, now minus the days, are deleted; both are
\* ---- compared as whole seconds, so a row made in the second the clock
\* ---- shows is not older than zero days
Expired(row, olderThanDays) ==
    \/ row.startedDaysAgo > olderThanDays
    \/ row.startedDaysAgo = olderThanDays /\ ~row.startedThisSecond

Old(rows, olderThanDays) ==
    {i \in DOMAIN rows : InTable(rows, i) /\ Expired(rows[i], olderThanDays)}

\* ---- tweet_search_origins.search_session_id REFERENCES search_sessions(id)
\* ---- ON DELETE no action: with foreign keys enforced, the DELETE fails as
\* ---- a whole when an origin row names a row it would delete
Referenced(rows, olderThanDays) ==
    /\ foreignKeys
    /\ \E o \in origins : o.searchSessionId \in Old(rows, olderThanDays)

cleanupOldSessions(rows, olderThanDays) ==
    [i \in DOMAIN rows |->
        IF i \in Old(rows, olderThanDays) /\ ~Referenced(rows, olderThanDays)
        THEN [rows[i] EXCEPT !.deleted = TRUE]
        ELSE rows[i]]

Changes(rows, olderThanDays) == Cardinality(Old(rows, olderThanDays))

\* --older-than: not given, without the unit, no days, forty days
OlderThanInputs == {<< >>, <<"4", "0">>, <<"0", "d">>, <<"4", "0", "d">>}

\* ---- searchCommand with --cleanup: handleCleanup, before --resume and the
\* ---- query are looked at; an error of the store is answered with its
\* ---- message
HandleCleanup(c, olderThan, dryRun) ==
    LET req == [NoRequest EXCEPT !.cleanup = TRUE, !.dryRun = dryRun]
        duration == parseDuration(olderThan)
    IN  /\ CommandFree(c)
        /\ used' = Bump("commands")
        /\ IF olderThan = << >>
           THEN /\ Records(c, Began(req))
                /\ sessions' = sessions
                /\ result' = OutcomeOf(c, "cleanup", 0, FALSE,
                                     "Please specify --older-than", NoStats)
           ELSE IF ~duration.ok
           THEN /\ Records(c, Began(req))
                /\ sessions' = sessions
                /\ result' = OutcomeOf(c, "cleanup", 0, FALSE,
                                     "Invalid duration format", NoStats)
           ELSE /\ Records(c, [Began(req) EXCEPT !.io = TRUE])
                /\ sessions' = cleanupOldSessions(sessions, duration.days)
                /\ result' =
                      IF Referenced(sessions, duration.days)
                      THEN OutcomeOf(c, "cleanup", 0, FALSE,
                                     "FOREIGN KEY constraint failed", NoStats)
                      ELSE << [by |-> c, op |-> "cleanup", sid |-> 0,
                               success |-> TRUE, message |-> "Deleted",
                               stats |-> NoStats,
                               data |-> << Changes(sessions,
                                                   duration.days) >>] >>
        /\ UNCHANGED <<topics, creator, source, tweets, users, fresh, origins,
                       foreignKeys, command>>

\* ---- resumeSearch: the session is read; an unknown or a completed session
\* ---- is refused
ResumeStarts(c, sessionId, dryRun) ==
    LET found == getSessionById(sessionId)
    IN  /\ CommandFree(c)
        /\ used' = Bump("commands")
        /\ Records(c, [Began([NoRequest EXCEPT !.resume = sessionId,
                                            !.dryRun = dryRun])
                       EXCEPT !.io = TRUE])
        /\ IF found = << >>
           THEN /\ Becomes(c, IdleRun)
                /\ result' = OutcomeOf(c, "resume", sessionId, FALSE,
                                     "not found", NoStats)
           ELSE IF found[1].status = "completed"
           THEN /\ Becomes(c, IdleRun)
                /\ result' = OutcomeOf(c, "resume", sessionId, FALSE,
                                     "already completed", NoStats)
           ELSE /\ Becomes(c, [IdleRun EXCEPT
                    !.op = "resume", !.pc = "cursor", !.sid = sessionId,
                    !.variants = found[1].variants,
                    !.queries = twitterQueries(found[1].variants,
                                               found[1].dateRange),
                    !.max = found[1].maxTweets,
                    !.stats = Stats(found[1].tweetsCollected,
                                    found[1].totalProcessed,
                                    found[1].duplicatesSkipped,
                                    found[1].usersCreated)])
                /\ result' = << >>
        /\ UNCHANGED <<topics, creator, source, sessions, tweets, users, fresh,
                       origins, foreignKeys>>

\* ---- resumeSearch: without cursor data the session is refused
ResumeGetCursor(c) ==
    LET run == command[c]
    IN  LET cursorData == getCursor(sessions, run.sid)
        IN  /\ run.op = "resume"
            /\ run.pc = "cursor"
            /\ IF cursorData = NoCursor
               THEN /\ Becomes(c, IdleRun)
                    /\ result' = OutcomeOf(c, "resume", run.sid, FALSE,
                                         "No cursor saved", NoStats)
               ELSE /\ Becomes(c, [run EXCEPT !.pc = "reopen",
                                          !.lastTweetId = cursorData.lastTweetId])
                    /\ result' = << >>
            /\ UNCHANGED <<topics, creator, source, sessions, tweets, users,
                           fresh, origins, foreignKeys, used, history>>

\* ---- resumeSearch: the session is marked running again
ResumeReopen(c) ==
    LET run == command[c]
    IN  /\ run.op = "resume"
        /\ run.pc = "reopen"
        /\ sessions' = SetStatus(sessions, run.sid, "running")
        /\ Becomes(c, [run EXCEPT !.pc = "auth"])
        /\ result' = << >>
        /\ UNCHANGED <<topics, creator, source, tweets, users, fresh, origins,
                       foreignKeys, used, history>>

\* ---- resumeSearch up to the loop: without credentials it throws, and
\* ---- nothing catches the error
ResumeBegins(c, auth) ==
    LET run == command[c]
        seen == history[c]
    IN  /\ run.op = "resume"
        /\ run.pc = "auth"
        /\ IF auth
           THEN /\ Becomes(c, [run EXCEPT !.pc = "request", !.qi = 1,
                              !.limit = run.max - run.stats.tweetsCollected])
                /\ result' = << >>
                /\ history' = history
           ELSE /\ Becomes(c, IdleRun)
                /\ result' = OutcomeOf(c, "resume", run.sid, FALSE,
                                     "throws AuthenticationError", run.stats)
                /\ Records(c, [seen EXCEPT !.failed = TRUE])
        /\ UNCHANGED <<topics, creator, source, sessions, tweets, users, fresh,
                       origins, foreignKeys, used>>

\* ---- resumeSearch: the final updateSession and the result
ResumeFinalize(c) ==
    LET run == command[c]
    IN  /\ run.op = "resume"
        /\ run.pc = "done"
        /\ sessions' = SetCompleted(sessions, run.sid, run.stats)
        /\ Becomes(c, IdleRun)
        /\ result' = OutcomeOf(c, "resume", run.sid, TRUE, "Resume complete",
                             run.stats)
        /\ UNCHANGED <<topics, creator, source, tweets, users, fresh, origins,
                       foreignKeys, used, history>>

\* ---- the process is killed while a command runs
Interrupt(c) ==
    LET run == command[c]
    IN  /\ run.op # "idle"
        /\ Becomes(c, IdleRun)
        /\ result' = << >>
        /\ UNCHANGED <<topics, creator, source, sessions, tweets, users, fresh,
                       origins, foreignKeys, used, history>>

\* ---- the times the commands in waitForRateLimitReset have still to wait
Waits ==
    {command[c].waitMs : c \in {w \in Commands : command[w].waitMs > 0}}

\* ---- the time that passes in one step of the clock: up to the end of the
\* ---- wait that ends first, one second when no command waits
Elapsed ==
    IF Waits = {} THEN 1000
    ELSE CHOOSE ms \in Waits : \A other \in Waits : ms <= other

\* ---- the clock shows a later second: the users and the sessions created
\* ---- before are no longer of this second, and the commands that wait
\* ---- have that much less to wait
SecondPasses ==
    /\ fresh # {} \/ Later(sessions) # sessions \/ Waits # {}
    /\ fresh' = {}
    /\ sessions' = Later(sessions)
    /\ command' = [c \in Commands |->
                     IF command[c].waitMs > 0
                     THEN [command[c] EXCEPT !.waitMs = @ - Elapsed]
                     ELSE command[c]]
    /\ result' = << >>
    /\ UNCHANGED <<topics, creator, source, tweets, users, origins,
                   foreignKeys, used, history>>

\* ---- another client of the store saves a cursor for a session
CallSaveCursor(sessionId, cursor, lastTweetId) ==
    /\ used.faults < MaxFaults
    /\ used' = Bump("faults")
    /\ sessions' = saveCursor(sessions, sessionId, cursor, lastTweetId)
    /\ result' = << >>
    /\ UNCHANGED <<topics, creator, source, tweets, users, fresh, origins,
                   foreignKeys, command, history>>

\* ---- another client of the store records an origin (of a stored record,
\* ---- for a session that is or was in the table); a call that throws
\* ---- returns nothing
CallRecordTweetOrigin(data) ==
    /\ used.faults < MaxFaults
    /\ used' = Bump("faults")
    /\ origins' = recordTweetOrigin(origins, data).rows
    /\ result' = IF recordTweetOrigin(origins, data).thrown THEN << >>
                 ELSE Answer("recordTweetOrigin", data,
                             recordTweetOrigin(origins, data).ok)
    /\ UNCHANGED <<topics, creator, source, sessions, tweets, users, fresh,
                   foreignKeys, command, history>>

\* ---- another writer creates the user this command is about to create
OtherWriterUpserts(c) ==
    LET run == command[c]
        seen == history[c]
    IN  /\ run.pc \in {"upsert", "userInsert"}
        /\ Username(run.item) \notin users
        /\ used.faults < MaxFaults
        /\ used' = Bump("faults")
        /\ users' = users \cup {Username(run.item)}
        /\ fresh' = fresh \cup {Username(run.item)}
        /\ Records(c, [seen EXCEPT !.raced = TRUE])
        /\ result' = << >>
        /\ UNCHANGED <<topics, creator, source, sessions, tweets, origins,
                       foreignKeys, command>>

\* ---- another writer stores the record this command is about to insert
OtherWriterInserts(c) ==
    LET run == command[c]
        seen == history[c]
    IN  /\ run.pc \in {"upsert", "userUpdate", "userInsert", "user", "insert"}
        /\ run.item.id \notin tweets
        /\ used.faults < MaxFaults
        /\ used' = Bump("faults")
        /\ tweets' = tweets \cup {run.item.id}
        /\ Records(c, [seen EXCEPT !.raced = TRUE])
        /\ result' = << >>
        /\ UNCHANGED <<topics, creator, source, sessions, users, fresh,
                       origins, foreignKeys, command>>

\* no command is in flight
Quiet == \A c \in Commands : command[c].op = "idle"

ResumeTargets == 1..(Len(sessions) + 1)

\* a session id of the table, one that was deleted, or one not given yet
OriginInputs ==
    { Origin(id, s, v) : id \in tweets, s \in 1..(Len(sessions) + 1),
                         v \in OriginVariants }

\* ---- createTopic called by another client of the store
IdleCreator ==
    [pc |-> "idle", name |-> NULL, variants |-> << >>, topic |-> 0,
     total |-> 0]

CreatorCalls(name, variants) ==
    /\ creator.pc = "idle"
    /\ used.faults < MaxFaults
    /\ used' = Bump("faults")
    /\ creator' = [IdleCreator EXCEPT !.pc = "check", !.name = name,
                                       !.variants = variants]
    /\ result' = << >>
    /\ UNCHANGED <<topics, source, sessions, tweets, users, fresh, origins,
                   foreignKeys, command, history>>

CreatorChecks ==
    /\ creator.pc = "check"
    /\ IF getTopicByName(topics, creator.name) # 0
       THEN /\ creator' = IdleCreator
            /\ result' = Outcome("createTopic", 0, FALSE,
                                 "Topic already exists", NoStats)
       ELSE /\ creator' = [creator EXCEPT !.pc = "insert"]
            /\ result' = << >>
    /\ UNCHANGED <<topics, source, sessions, tweets, users, fresh, origins,
                   foreignKeys, command, used, history>>

\* an insert into a table without the unique index
CreatorInserts_NoIndex ==
    /\ creator.pc = "insert"
    /\ creator' = IdleCreator
    /\ topics' = Append(topics, NewTopic(creator.name, creator.variants))
    /\ result' = Outcome("createTopic", 0, TRUE, "created", NoStats)
    /\ UNCHANGED <<source, sessions, tweets, users, fresh, origins,
                   foreignKeys, command, used, history>>

CreatorInserts ==
    /\ creator.pc = "insert"
    /\ creator' = IdleCreator
    /\ IF getTopicByName(topics, creator.name) # 0
       THEN /\ topics' = topics
            /\ result' = Outcome("createTopic", 0, FALSE,
                     "UNIQUE constraint failed: search_topics.name", NoStats)
       ELSE /\ topics' = Append(topics,
                                NewTopic(creator.name, creator.variants))
            /\ result' = Outcome("createTopic", 0, TRUE, "created", NoStats)
    /\ UNCHANGED <<source, sessions, tweets, users, fresh, origins,
                   foreignKeys, command, used, history>>

\* ---- the stores at the start: empty, or as left by a search that collected
\* ---- one record and completed
EmptyStores ==
    [topics |-> << >>, sessions |-> << >>, tweets |-> {}, users |-> {},
     origins |-> {}]

\* ---- the earlier search was made forty days ago, to the second
PriorSession ==
    [NewSession(twitterQueries(<<"GPT-5">>, NULL), <<"GPT-5">>,
                Request(<<"GPT-5">>, 1, NULL))
        EXCEPT !.tweetsCollected = 1, !.totalProcessed = 1,
               !.usersCreated = 1, !.status = "completed",
               !.completedAt = TRUE, !.startedDaysAgo = 40]

PriorStores ==
    [topics |-> << >>, sessions |-> << PriorSession >>, tweets |-> { <<2>> },
     users |-> {"unknown"}, origins |-> { Origin(<<2>>, 1, "GPT-5") }]

\* ---- enforced: the connections are opened with foreign keys on
SearchInit(stores, enforced) ==
    /\ topics = stores.topics
    /\ creator = IdleCreator
    /\ sessions = stores.sessions
    /\ tweets = stores.tweets
    /\ users = stores.users
    /\ origins = stores.origins
    /\ foreignKeys = enforced
    /\ fresh = {}
    /\ command = [c \in Commands |-> IdleRun]
    /\ result = << >>
    /\ used = [commands |-> 0, sessions |-> 0, yielded |-> 0, faults |-> 0]
    /\ history = [c \in Commands |-> NoHistory]

SearchNext ==
    \/ \E req \in Requests : SearchCommandRejects(1, req)
          /\ UNCHANGED <<trackerVars, utilVars>>
    \/ \E req \in Requests :
          used.sessions < MaxSessions /\ SearchCommandStarts(1, req)
          /\ UNCHANGED <<trackerVars, utilVars>>
    \/ \E auth \in BOOLEAN : ExecuteSearchBegins(1, auth)
          /\ UNCHANGED <<trackerVars, utilVars>>
    \/ SourceRequest(1)
          /\ UNCHANGED <<trackerVars, utilVars>>
    \/ \E item \in source.items : SourceYields(1, item)
          /\ UNCHANGED <<trackerVars, utilVars>>
    \/ SourceEnds(1)
          /\ UNCHANGED <<trackerVars, utilVars>>
    \/ \E error \in SourceErrors : SourceThrows(1, error)
          /\ UNCHANGED <<trackerVars, utilVars>>
    \/ RateLimitWaitEnds(1)
          /\ UNCHANGED <<trackerVars, utilVars>>
    \/ ExamineItem(1)
          /\ UNCHANGED <<trackerVars, utilVars>>
    \/ TweetExists(1)
          /\ UNCHANGED <<trackerVars, utilVars>>
    \/ UpsertUser(1)
          /\ UNCHANGED <<trackerVars, utilVars>>
    \/ InsertUser(1)
          /\ UNCHANGED <<trackerVars, utilVars>>
    \/ UpdateUser(1)
          /\ UNCHANGED <<trackerVars, utilVars>>
    \/ UpsertUserReturns(1)
          /\ UNCHANGED <<trackerVars, utilVars>>
    \/ InsertTweet(1)
          /\ UNCHANGED <<trackerVars, utilVars>>
    \/ RecordOrigin(1)
          /\ UNCHANGED <<trackerVars, utilVars>>
    \/ \E embed \in BOOLEAN : ExecuteSearchReturns(1, embed)
          /\ UNCHANGED <<trackerVars, utilVars>>
    \/ EmbedDone(1)
          /\ UNCHANGED <<trackerVars, utilVars>>
    \/ FinalizeSession(1)
          /\ UNCHANGED <<trackerVars, utilVars>>
    \/ \E id \in ResumeTargets : ResumeStarts(1, id, FALSE)
          /\ UNCHANGED <<trackerVars, utilVars>>
    \/ ResumeGetCursor(1)
          /\ UNCHANGED <<trackerVars, utilVars>>
    \/ ResumeReopen(1)
          /\ UNCHANGED <<trackerVars, utilVars>>
    \/ \E auth \in BOOLEAN : ResumeBegins(1, auth)
          /\ UNCHANGED <<trackerVars, utilVars>>
    \/ ResumeFinalize(1)
          /\ UNCHANGED <<trackerVars, utilVars>>
    \/ Interrupt(1)
          /\ UNCHANGED <<trackerVars, utilVars>>
    \/ SecondPasses
          /\ UNCHANGED <<trackerVars, utilVars>>
    \/ \E id \in DOMAIN sessions, last \in CursorInputs :
          Quiet /\ CallSaveCursor(id, "cursor-1", last)
          /\ UNCHANGED <<trackerVars, utilVars>>
    \/ \E data \in OriginInputs : Quiet /\ CallRecordTweetOrigin(data)
          /\ UNCHANGED <<trackerVars, utilVars>>
    \/ OtherWriterInserts(1)
          /\ UNCHANGED <<trackerVars, utilVars>>
    \/ OtherWriterUpserts(1)
          /\ UNCHANGED <<trackerVars, utilVars>>
    \/ ItemThrows(1)
          /\ UNCHANGED <<trackerVars, utilVars>>

(***************************************************************************)
(* Part III.  The retry wrappers of utils/retry.ts.                        *)
(*                                                                         *)
(* A wrapper call is given the operation as a plan: what its first, second *)
(* and third invocation do ("ok", or the error it throws).                 *)
(***************************************************************************)

\* ---- program constants
SmartMaxAttempts == 3
SmartDefaultDelay == 2000
SmartDelayCap == 300000
StandardMaxAttempts == 3
StandardBaseDelayMs == 2000
StandardMaxDelayMs == 60000

OperationErrors == {RateLimitExceeded, Unauthorized, BadRequest,
                    ConnectionReset, ServiceUnavailable, Unexpected,
                    BadGateway, SessionExpired, UserNotFound,
                    UnavailableTemporarily}

NoError == << >>

\* what one invocation of the operation does: it resolves, or throws
Outcomes == {[ok |-> TRUE, error |-> NoError]}
               \cup {[ok |-> FALSE, error |-> e] : e \in OperationErrors}

Plans == [1..SmartMaxAttempts -> Outcomes]

\* ---- a caller that asks for more attempts than the default, so that the
\* ---- doubled delay reaches the cap
LongAttempts == 5    \* maxAttempts of that caller
LongOutcomes == {[ok |-> TRUE, error |-> NoError],
                 [ok |-> FALSE, error |-> RateLimitExceeded],
                 [ok |-> FALSE, error |-> ConnectionReset]}
LongPlans == [1..LongAttempts -> LongOutcomes]

IdleRetry ==
    [wrapper |-> "none", pc |-> "idle", plan |-> << >>, attempt |-> 0,
     invoked |-> 0, waits |-> << >>, lastError |-> NoError,
     finalFailure |-> 0, max |-> 0, finalCalls |-> 0]

RetryFree == retry.pc \in {"idle", "returned", "threw"}

RECURSIVE Pow2(_)
Pow2(n) == IF n = 0 THEN 1 ELSE 2 * Pow2(n - 1)

Min(a, b) == IF a < b THEN a ELSE b

\* a delay that is doubled per attempt without a cap
SmartDelay_Uncapped(error, attempt) ==
    LET suggested == classifyError(error).suggestedDelay
        delay == IF suggested = 0 THEN SmartDefaultDelay ELSE suggested
    IN  delay * Pow2(attempt)

\* ---- withSmartRetry: delay = classification.suggestedDelay || 2000, then
\* ---- doubled per attempt and capped
SmartDelay(error, attempt) ==
    LET suggested == classifyError(error).suggestedDelay
        delay == IF suggested = 0 THEN SmartDefaultDelay ELSE suggested
    IN  Min(delay * Pow2(attempt), SmartDelayCap)

CallWithSmartRetry(plan, maxAttempts) ==
    /\ RetryFree
    /\ retry' = [IdleRetry EXCEPT !.wrapper = "smart", !.pc = "call",
                                  !.plan = plan, !.max = maxAttempts]

\* ---- withSmartRetry: one pass of the for loop, up to the sleep
SmartOperationSettles ==
    LET outcome == retry.plan[retry.invoked + 1]
        ran == [retry EXCEPT !.invoked = @ + 1]
        failed == [ran EXCEPT !.lastError = outcome.error]
    IN  /\ retry.wrapper = "smart"
        /\ retry.pc = "call"
        /\ retry' =
             IF outcome.ok THEN [ran EXCEPT !.pc = "returned"]
             ELSE IF ~classifyError(outcome.error).shouldRetry
             THEN [failed EXCEPT !.pc = "threw",
                                 !.finalFailure = retry.attempt + 1,
                                 !.finalCalls = @ + 1]
             ELSE IF retry.attempt = retry.max - 1
             THEN [failed EXCEPT !.pc = "threw",
                                 !.finalFailure = retry.attempt + 1,
                                 !.finalCalls = @ + 1]
             ELSE [failed EXCEPT !.pc = "sleep",
                     !.waits = Append(@, SmartDelay(outcome.error,
                                                    retry.attempt))]

SmartSleepEnds ==
    /\ retry.wrapper = "smart"
    /\ retry.pc = "sleep"
    /\ retry' = [retry EXCEPT !.pc = "call", !.attempt = @ + 1]

\* ---- withExponentialBackoff (utils/backoff.ts): the delay before the
\* ---- next attempt, without its jitter
BackoffDelay(attempt) ==
    Min(StandardBaseDelayMs * Pow2(attempt), StandardMaxDelayMs)

\* ---- withTwitterRetry with the standard preset: the call is handed to
\* ---- withExponentialBackoff(operation, retryConfig, onRetry)
CallWithTwitterRetry(plan) ==
    /\ RetryFree
    /\ retry' = [IdleRetry EXCEPT !.wrapper = "twitter", !.pc = "call",
                                  !.plan = plan, !.max = StandardMaxAttempts]

\* ---- withExponentialBackoff: one attempt.  It gets the operation, the
\* ---- preset and onRetry; the shouldRetry closure of withTwitterRetry is
\* ---- not handed to it, so every failure short of the last attempt waits
\* ---- and retries
BackoffOperationSettles ==
    LET outcome == retry.plan[retry.invoked + 1]
        ran == [retry EXCEPT !.invoked = @ + 1]
        failed == [ran EXCEPT !.lastError = outcome.error]
    IN  /\ retry.wrapper = "twitter"
        /\ retry.pc = "call"
        /\ retry' =
             IF outcome.ok THEN [ran EXCEPT !.pc = "returned"]
             ELSE IF retry.attempt = StandardMaxAttempts - 1
             THEN [failed EXCEPT !.pc = "threw",
                                 !.finalFailure = retry.attempt + 1,
                                 !.finalCalls = @ + 1]
             ELSE [failed EXCEPT !.pc = "sleep",
                     !.waits = Append(@, BackoffDelay(retry.attempt))]

BackoffSleepEnds ==
    /\ retry.wrapper = "twitter"
    /\ retry.pc = "sleep"
    /\ retry' = [retry EXCEPT !.pc = "call", !.attempt = @ + 1]

RetryAtRest == retry = IdleRetry

RetryNext ==
    \/ \E plan \in Plans : CallWithSmartRetry(plan, SmartMaxAttempts)
          /\ UNCHANGED <<trackerVars, searchVars, split, match>>
    \/ \E plan \in LongPlans : CallWithSmartRetry(plan, LongAttempts)
          /\ UNCHANGED <<trackerVars, searchVars, split, match>>
    \/ SmartOperationSettles
          /\ UNCHANGED <<trackerVars, searchVars, split, match>>
    \/ SmartSleepEnds
          /\ UNCHANGED <<trackerVars, searchVars, split, match>>
    \/ \E plan \in Plans : CallWithTwitterRetry(plan)
          /\ UNCHANGED <<trackerVars, searchVars, split, match>>
    \/ BackoffOperationSettles
          /\ UNCHANGED <<trackerVars, searchVars, split, match>>
    \/ BackoffSleepEnds
          /\ UNCHANGED <<trackerVars, searchVars, split, match>>

(***************************************************************************)
(* Part IV.  The query builder: splitQuery and the length of the query     *)
(* that buildTwitterQuery makes of a group.                                *)
(***************************************************************************)

\* ---- bounds of the model
MaxVariants == 3     \* variants in one list

SplitVariants == {"AGI", "A200", "B200", "C138", "D139", "E397", "F398"}

RECURSIVE SeqsUpTo(_, _)
SeqsUpTo(S, n) ==
    IF n = 0 THEN { << >> }
    ELSE SeqsUpTo(S, n - 1)
           \cup { Append(q, x) : q \in { r \in SeqsUpTo(S, n - 1) :
                                            Len(r) = n - 1 }, x \in S }

VariantLists == SeqsUpTo(SplitVariants, MaxVariants)

DateRanges == {NULL, "2024-12-22..2024-12-29"}

RECURSIVE SumQuoted(_)
SumQuoted(group) ==
    IF group = << >> THEN 0
    ELSE Length(Head(group)) + 2 + SumQuoted(Tail(group))

\* ---- String.length of what buildTwitterQuery returns: the quoted
\* ---- variants joined by " OR ", then " since:YYYY-MM-DD until:YYYY-MM-DD"
\* ---- when there is a date range, then " -filter:retweets"
queryLength(query) ==
    SumQuoted(query.terms)
      + (IF Len(query.terms) > 1 THEN 4 * (Len(query.terms) - 1) ELSE 0)
      + (IF query.dates = NULL THEN 0 ELSE 34)
      + 17

\* ---- a call of matchVariant: the text by the lower-case terms that occur
\* ---- in it, the variants as parseSearchVariants leaves them (none empty)
MatchVariants == {"AGI", "agi", "GPT-5", "A200", "B200"}
MatchTexts == SUBSET {"agi", "gpt-5", "a200", "b200"}

NoMatch == [text |-> {}, variants |-> << >>, found |-> NULL, called |-> FALSE]

CallMatchVariant ==
    /\ ~match.called
    /\ match' = [match EXCEPT !.found = matchVariant(match.text, match.variants),
                              !.called = TRUE]

NoSplit == [variants |-> << >>, groups |-> << >>, called |-> FALSE]

\* ---- splitQuery(variants), maxLength left at its default
CallSplitQuery ==
    /\ ~split.called
    /\ split' = [split EXCEPT !.groups = splitQuery(split.variants),
                              !.called = TRUE]

SplitAtRest == split = NoSplit /\ match = NoMatch

SplitInit ==
    /\ TrackerInit /\ db = EmptyMap
    /\ source = [items |-> {}, yields |-> 0, limited |-> {}]
    /\ SearchInit(EmptyStores, FALSE)
    /\ RetryAtRest
    /\ match = NoMatch
    /\ split \in {[NoSplit EXCEPT !.variants = V] : V \in VariantLists}

SplitNext ==
    \/ CallSplitQuery
          /\ UNCHANGED <<trackerVars, searchVars, retry, match>>

(***************************************************************************)
(* The specifications: each part runs with the other parts at rest.        *)
(***************************************************************************)

TrackerNext ==
    \/ \E c \in Callers : CallInitialize(c)
          /\ UNCHANGED <<searchVars, utilVars>>
    \/ \E c \in Callers : ReturnInitialize(c)
          /\ UNCHANGED <<searchVars, utilVars>>
    \/ \E k \in 1..Len(runs) : DoInitializeMark(k)
          /\ UNCHANGED <<searchVars, utilVars>>
    \/ \E k \in 1..Len(runs) : DoInitializeCleanup(k)
          /\ UNCHANGED <<searchVars, utilVars>>
    \/ \E k \in 1..Len(runs) : DoInitializeLoad(k)
          /\ UNCHANGED <<searchVars, utilVars>>
    \/ \E c \in Callers, ty \in Types : CallCreateJob(c, ty)
          /\ UNCHANGED <<searchVars, utilVars>>
    \/ \E c \in Callers : CreateJobBuild(c)
          /\ UNCHANGED <<searchVars, utilVars>>
    \/ \E c \in Callers : CreateJobRegister(c)
          /\ UNCHANGED <<searchVars, utilVars>>
    \/ \E c \in Callers, id \in OwnTargets, p \in ProgressInputs :
          CallUpdateProgress(c, id, p)
          /\ UNCHANGED <<searchVars, utilVars>>
    \/ \E c \in Callers : UpdateProgressPersist(c)
          /\ UNCHANGED <<searchVars, utilVars>>
    \/ \E c \in Callers, id \in OwnTargets, in \in CompleteInputs :
          CallCompleteJob(c, id, in[1], in[2])
          /\ UNCHANGED <<searchVars, utilVars>>
    \/ \E c \in Callers : CompleteJobPersist(c)
          /\ UNCHANGED <<searchVars, utilVars>>
    \/ \E c \in Callers, id \in CancelTargets : CallCancelJob(c, id)
          /\ UNCHANGED <<searchVars, utilVars>>
    \/ \E c \in Callers : CancelJobPersist(c)
          /\ UNCHANGED <<searchVars, utilVars>>
    \/ \E t \in Pending : EvictTimerFires(t)
          /\ UNCHANGED <<searchVars, utilVars>>
    \/ \E c \in Callers : CallReload(c)
          /\ UNCHANGED <<searchVars, utilVars>>
    \/ \E c \in Callers : ReloadNotify(c)
          /\ UNCHANGED <<searchVars, utilVars>>
    \/ \E l \in Listeners : Subscribe(l)
          /\ UNCHANGED <<searchVars, utilVars>>
    \/ \E l \in Listeners : Unsubscribe(l)
          /\ UNCHANGED <<searchVars, utilVars>>
    \/ \E d \in ClockSteps : Advance(d)
          /\ UNCHANGED <<searchVars, utilVars>>

vars == <<trackerVars, searchVars, utilVars>>

TrackerAtRest == TrackerInit /\ db = EmptyMap

SearchAtRest ==
    /\ source = [items |-> {}, yields |-> 0, limited |-> {}]
    /\ SearchInit(EmptyStores, FALSE)

JobsInit == TrackerInit /\ SearchAtRest /\ RetryAtRest /\ SplitAtRest

SpecJobs == JobsInit /\ [][TrackerNext]_vars

\* a source of many kinds of items that yields few of them
SearchSpecInit ==
    /\ TrackerAtRest
    /\ RetryAtRest
    /\ SplitAtRest
    /\ source = [items |-> Catalog, yields |-> MaxYield, limited |-> {}]
    /\ \E stores \in {EmptyStores, PriorStores}, enforced \in BOOLEAN :
          SearchInit(stores, enforced)

SpecSearch == SearchSpecInit /\ [][SearchNext]_vars

\* ---- a search for three records whose source yields five items
TargetRequests ==
    { Request(<<"AGI", "", "GPT-5">>, 3, NULL),
      Request(<<"AGI">>, 0, NULL) }

TargetInit ==
    /\ TrackerAtRest
    /\ RetryAtRest
    /\ SplitAtRest
    /\ source = [items |-> Catalog, yields |-> TargetYields, limited |-> {}]
    /\ \E enforced \in BOOLEAN : SearchInit(PriorStores, enforced)

TargetNext ==
    \/ \E req \in TargetRequests : SearchCommandRejects(1, req)
          /\ UNCHANGED <<trackerVars, utilVars>>
    \/ \E req \in TargetRequests :
          used.sessions < MaxSessions /\ SearchCommandStarts(1, req)
          /\ UNCHANGED <<trackerVars, utilVars>>
    \/ \E auth \in BOOLEAN : ExecuteSearchBegins(1, auth)
          /\ UNCHANGED <<trackerVars, utilVars>>
    \/ SourceRequest(1)
          /\ UNCHANGED <<trackerVars, utilVars>>
    \/ \E item \in source.items : SourceYields(1, item)
          /\ UNCHANGED <<trackerVars, utilVars>>
    \/ SourceEnds(1)
          /\ UNCHANGED <<trackerVars, utilVars>>
    \/ \E error \in SourceErrors : SourceThrows(1, error)
          /\ UNCHANGED <<trackerVars, utilVars>>
    \/ RateLimitWaitEnds(1)
          /\ UNCHANGED <<trackerVars, utilVars>>
    \/ ExamineItem(1)
          /\ UNCHANGED <<trackerVars, utilVars>>
    \/ TweetExists(1)
          /\ UNCHANGED <<trackerVars, utilVars>>
    \/ UpsertUser(1)
          /\ UNCHANGED <<trackerVars, utilVars>>
    \/ InsertUser(1)
          /\ UNCHANGED <<trackerVars, utilVars>>
    \/ UpdateUser(1)
          /\ UNCHANGED <<trackerVars, utilVars>>
    \/ UpsertUserReturns(1)
          /\ UNCHANGED <<trackerVars, utilVars>>
    \/ InsertTweet(1)
          /\ UNCHANGED <<trackerVars, utilVars>>
    \/ RecordOrigin(1)
          /\ UNCHANGED <<trackerVars, utilVars>>
    \/ \E embed \in BOOLEAN : ExecuteSearchReturns(1, embed)
          /\ UNCHANGED <<trackerVars, utilVars>>
    \/ EmbedDone(1)
          /\ UNCHANGED <<trackerVars, utilVars>>
    \/ FinalizeSession(1)
          /\ UNCHANGED <<trackerVars, utilVars>>
    \/ Interrupt(1)
          /\ UNCHANGED <<trackerVars, utilVars>>
    \/ SecondPasses
          /\ UNCHANGED <<trackerVars, utilVars>>
    \/ OtherWriterInserts(1)
          /\ UNCHANGED <<trackerVars, utilVars>>
    \/ OtherWriterUpserts(1)
          /\ UNCHANGED <<trackerVars, utilVars>>
    \/ ItemThrows(1)
          /\ UNCHANGED <<trackerVars, utilVars>>

SpecTarget == TargetInit /\ [][TargetNext]_vars

\* a source of few kinds of items that yields enough of them for a checkpoint
CheckpointInit ==
    /\ TrackerAtRest
    /\ RetryAtRest
    /\ SplitAtRest
    /\ source = [items |-> LongCatalog, yields |-> CheckpointEvery,
                 limited |-> {}]
    /\ \E enforced \in BOOLEAN : SearchInit(PriorStores, enforced)

CheckpointNext ==
    \/ \E req \in Requests : SearchCommandRejects(1, req)
          /\ UNCHANGED <<trackerVars, utilVars>>
    \/ \E req \in Requests :
          used.sessions < MaxSessions /\ SearchCommandStarts(1, req)
          /\ UNCHANGED <<trackerVars, utilVars>>
    \/ \E auth \in BOOLEAN : ExecuteSearchBegins(1, auth)
          /\ UNCHANGED <<trackerVars, utilVars>>
    \/ SourceRequest(1)
          /\ UNCHANGED <<trackerVars, utilVars>>
    \/ \E item \in source.items : SourceYields(1, item)
          /\ UNCHANGED <<trackerVars, utilVars>>
    \/ SourceEnds(1)
          /\ UNCHANGED <<trackerVars, utilVars>>
    \/ \E error \in SourceErrors : SourceThrows(1, error)
          /\ UNCHANGED <<trackerVars, utilVars>>
    \/ RateLimitWaitEnds(1)
          /\ UNCHANGED <<trackerVars, utilVars>>
    \/ ExamineItem(1)
          /\ UNCHANGED <<trackerVars, utilVars>>
    \/ TweetExists(1)
          /\ UNCHANGED <<trackerVars, utilVars>>
    \/ UpsertUser(1)
          /\ UNCHANGED <<trackerVars, utilVars>>
    \/ InsertUser(1)
          /\ UNCHANGED <<trackerVars, utilVars>>
    \/ UpdateUser(1)
          /\ UNCHANGED <<trackerVars, utilVars>>
    \/ UpsertUserReturns(1)
          /\ UNCHANGED <<trackerVars, utilVars>>
    \/ InsertTweet(1)
          /\ UNCHANGED <<trackerVars, utilVars>>
    \/ RecordOrigin(1)
          /\ UNCHANGED <<trackerVars, utilVars>>
    \/ SaveCheckpoint(1)
          /\ UNCHANGED <<trackerVars, utilVars>>
    \/ \E embed \in BOOLEAN : ExecuteSearchReturns(1, embed)
          /\ UNCHANGED <<trackerVars, utilVars>>
    \/ EmbedDone(1)
          /\ UNCHANGED <<trackerVars, utilVars>>
    \/ FinalizeSession(1)
          /\ UNCHANGED <<trackerVars, utilVars>>
    \/ \E id \in ResumeTargets : ResumeStarts(1, id, FALSE)
          /\ UNCHANGED <<trackerVars, utilVars>>
    \/ ResumeGetCursor(1)
          /\ UNCHANGED <<trackerVars, utilVars>>
    \/ ResumeReopen(1)
          /\ UNCHANGED <<trackerVars, utilVars>>
    \/ \E auth \in BOOLEAN : ResumeBegins(1, auth)
          /\ UNCHANGED <<trackerVars, utilVars>>
    \/ ResumeFinalize(1)
          /\ UNCHANGED <<trackerVars, utilVars>>
    \/ Interrupt(1)
          /\ UNCHANGED <<trackerVars, utilVars>>
    \/ SecondPasses
          /\ UNCHANGED <<trackerVars, utilVars>>
    \/ \E id \in DOMAIN sessions, last \in CursorInputs :
          Quiet /\ CallSaveCursor(id, "cursor-1", last)
          /\ UNCHANGED <<trackerVars, utilVars>>
    \/ \E data \in OriginInputs : Quiet /\ CallRecordTweetOrigin(data)
          /\ UNCHANGED <<trackerVars, utilVars>>
    \/ OtherWriterInserts(1)
          /\ UNCHANGED <<trackerVars, utilVars>>
    \/ OtherWriterUpserts(1)
          /\ UNCHANGED <<trackerVars, utilVars>>
    \/ ItemThrows(1)
          /\ UNCHANGED <<trackerVars, utilVars>>

SpecCheckpoint == CheckpointInit /\ [][CheckpointNext]_vars

\* ---- a search that runs while its caller holds a job for it.  searchCommand
\* ---- takes no JobContext and search.ts does not import the tracker: the
\* ---- job of a search is the one its caller got from createJob("search").
SearchJobId == <<"search", StartNow>>

\* the tracker as createJob("search") leaves it when called at StartNow on
\* an empty jobs table
JobRegistered ==
    /\ now = StartNow
    /\ jobs = Put(EmptyMap, SearchJobId, NewJob(StartNow))
    /\ abortControllers = Put(EmptyMap, SearchJobId, 1)
    /\ aborted = {}
    /\ listeners = {}
    /\ initialized = TRUE
    /\ initPromise = 1
    /\ runs = << "done" >>
    /\ reloads = 0
    /\ db = Put(EmptyMap, SearchJobId,
                DbRow("running", StartNow, StartingProgress))
    /\ timers = << >>
    /\ task = [c \in Callers |-> IdleTask]
    /\ created = 1
    /\ calls = 1
    /\ contexts = {[jobId |-> SearchJobId, ctrl |-> 1]}
    /\ emitted = << [to |-> {}, jobs |-> jobs] >>
    /\ returned = << [op |-> "createJob", id |-> SearchJobId,
                      ret |-> "context"] >>

\* the sub-queries the source always answers with a rate-limit error
LimitedQueries == SUBSET {1, 2}

ServiceInit ==
    /\ JobRegistered
    /\ RetryAtRest
    /\ SplitAtRest
    /\ source \in {[items |-> LongCatalog, yields |-> ServiceYields,
                     limited |-> l] : l \in LimitedQueries}
    /\ \E enforced \in BOOLEAN : SearchInit(EmptyStores, enforced)

\* the external caller cancels while the search runs
ServiceNext ==
    \/ \E c \in Callers, id \in CancelTargets :
          command[1].op = "search" /\ CallCancelJob(c, id)
          /\ UNCHANGED <<searchVars, utilVars>>
    \/ \E c \in Callers : CancelJobPersist(c)
          /\ UNCHANGED <<searchVars, utilVars>>
    \/ \E req \in Requests :
          used.sessions < MaxSessions /\ SearchCommandStarts(1, req)
          /\ UNCHANGED <<trackerVars, utilVars>>
    \/ \E auth \in BOOLEAN : ExecuteSearchBegins(1, auth)
          /\ UNCHANGED <<trackerVars, utilVars>>
    \/ SourceRequest(1)
          /\ UNCHANGED <<trackerVars, utilVars>>
    \/ \E item \in source.items : SourceYields(1, item)
          /\ UNCHANGED <<trackerVars, utilVars>>
    \/ SourceEnds(1)
          /\ UNCHANGED <<trackerVars, utilVars>>
    \/ \E error \in RateLimitErrors : SourceRateLimited(1, error)
          /\ UNCHANGED <<trackerVars, utilVars>>
    \/ RateLimitWaitEnds(1)
          /\ UNCHANGED <<trackerVars, utilVars>>
    \/ ExamineItem(1)
          /\ UNCHANGED <<trackerVars, utilVars>>
    \/ TweetExists(1)
          /\ UNCHANGED <<trackerVars, utilVars>>
    \/ UpsertUser(1)
          /\ UNCHANGED <<trackerVars, utilVars>>
    \/ InsertUser(1)
          /\ UNCHANGED <<trackerVars, utilVars>>
    \/ UpsertUserReturns(1)
          /\ UNCHANGED <<trackerVars, utilVars>>
    \/ SecondPasses
          /\ UNCHANGED <<trackerVars, utilVars>>
    \/ InsertTweet(1)
          /\ UNCHANGED <<trackerVars, utilVars>>
    \/ RecordOrigin(1)
          /\ UNCHANGED <<trackerVars, utilVars>>
    \/ \E embed \in BOOLEAN : ExecuteSearchReturns(1, embed)
          /\ UNCHANGED <<trackerVars, utilVars>>
    \/ EmbedDone(1)
          /\ UNCHANGED <<trackerVars, utilVars>>
    \/ FinalizeSession(1)
          /\ UNCHANGED <<trackerVars, utilVars>>

\* ---- the start of a search: every kind of request, a topic that may exist
\* ---- already, another client that creates a topic of the same name
StartRequests ==
    { Options(TRUE, <<"AGI", "GPT-5">>, 1, "7", NULL, NULL, FALSE, "ai"),
      Options(TRUE, <<"A200", "B200">>, 1, NULL, "2024-12-22", "2024-12-29",
              FALSE, NULL),
      Options(TRUE, <<"A200", "B200">>, 1, NULL, "2024-12-22", "2024-12-29",
              TRUE, NULL),
      Options(TRUE, <<"AGI">>, 1, "7", NULL, NULL, TRUE, "ai"),
      Options(FALSE, << >>, 1, "7", NULL, NULL, FALSE, "ai"),
      Options(TRUE, <<"", "">>, 1, "7", NULL, NULL, FALSE, "ai"),
      Options(TRUE, <<"AGI">>, 0, "7", NULL, NULL, FALSE, "ai"),
      Options(TRUE, <<"AGI">>, 1, "7", "2024-01-01", NULL, FALSE, "ai"),
      Options(TRUE, <<"AGI">>, 1, "7", NULL, "2024-12-29", TRUE, NULL) }

TopicStores == [EmptyStores EXCEPT !.topics = << NewTopic("ai", <<"AGI">>) >>]

StartInit ==
    /\ TrackerAtRest
    /\ RetryAtRest
    /\ SplitAtRest
    /\ source = [items |-> LongCatalog, yields |-> StartYields, limited |-> {}]
    /\ \E stores \in {EmptyStores, TopicStores}, enforced \in BOOLEAN :
          SearchInit(stores, enforced)

StartNext ==
    \/ \E c \in Commands, req \in StartRequests : SearchCommandRejects(c, req)
          /\ UNCHANGED <<trackerVars, utilVars>>
    \/ \E c \in Commands, req \in StartRequests : HandleDryRun(c, req)
          /\ UNCHANGED <<trackerVars, utilVars>>
    \/ \E c \in Commands, req \in StartRequests : SearchCommandStarts(c, req)
          /\ UNCHANGED <<trackerVars, utilVars>>
    \/ \E c \in Commands : GetTopic(c)
          /\ UNCHANGED <<trackerVars, utilVars>>
    \/ \E c \in Commands : CreateTopicChecks(c)
          /\ UNCHANGED <<trackerVars, utilVars>>
    \/ \E c \in Commands : CreateTopicInserts(c)
          /\ UNCHANGED <<trackerVars, utilVars>>
    \/ \E c \in Commands : CreateSession(c)
          /\ UNCHANGED <<trackerVars, utilVars>>
    \/ \E c \in Commands, auth \in BOOLEAN : ExecuteSearchBegins(c, auth)
          /\ UNCHANGED <<trackerVars, utilVars>>
    \/ \E c \in Commands : SourceRequest(c)
          /\ UNCHANGED <<trackerVars, utilVars>>
    \/ \E c \in Commands, item \in source.items : SourceYields(c, item)
          /\ UNCHANGED <<trackerVars, utilVars>>
    \/ \E c \in Commands : SourceEnds(c)
          /\ UNCHANGED <<trackerVars, utilVars>>
    \/ \E c \in Commands : ExamineItem(c)
          /\ UNCHANGED <<trackerVars, utilVars>>
    \/ \E c \in Commands : TweetExists(c)
          /\ UNCHANGED <<trackerVars, utilVars>>
    \/ \E c \in Commands : UpsertUser(c)
          /\ UNCHANGED <<trackerVars, utilVars>>
    \/ \E c \in Commands : InsertUser(c)
          /\ UNCHANGED <<trackerVars, utilVars>>
    \/ \E c \in Commands : UpsertUserReturns(c)
          /\ UNCHANGED <<trackerVars, utilVars>>
    \/ SecondPasses
          /\ UNCHANGED <<trackerVars, utilVars>>
    \/ \E c \in Commands : InsertTweet(c)
          /\ UNCHANGED <<trackerVars, utilVars>>
    \/ \E c \in Commands : RecordOrigin(c)
          /\ UNCHANGED <<trackerVars, utilVars>>
    \/ \E c \in Commands, embed \in BOOLEAN : ExecuteSearchReturns(c, embed)
          /\ UNCHANGED <<trackerVars, utilVars>>
    \/ \E c \in Commands : EmbedDone(c)
          /\ UNCHANGED <<trackerVars, utilVars>>
    \/ \E c \in Commands : FinalizeSession(c)
          /\ UNCHANGED <<trackerVars, utilVars>>
    \/ \E c \in Commands : UpdateTopicStatsSelect(c)
          /\ UNCHANGED <<trackerVars, utilVars>>
    \/ \E id \in DOMAIN topics : OtherSessionSelectsTopic(id)
          /\ UNCHANGED <<trackerVars, utilVars>>
    \/ \E n \in OtherCollected : OtherSessionUpdatesTopic(n)
          /\ UNCHANGED <<trackerVars, utilVars>>
    \/ \E c \in Commands : UpdateTopicStats(c)
          /\ UNCHANGED <<trackerVars, utilVars>>
    \/ \E c \in Commands, id \in ResumeTargets, dryRun \in BOOLEAN : ResumeStarts(c, id, dryRun)
          /\ UNCHANGED <<trackerVars, utilVars>>
    \/ \E c \in Commands, olderThan \in OlderThanInputs, dryRun \in BOOLEAN :
          HandleCleanup(c, olderThan, dryRun)
          /\ UNCHANGED <<trackerVars, utilVars>>
    \/ \E c \in Commands : ResumeGetCursor(c)
          /\ UNCHANGED <<trackerVars, utilVars>>
    \/ \E variants \in {<<"GPT-5">>} : CreatorCalls("ai", variants)
          /\ UNCHANGED <<trackerVars, utilVars>>
    \/ CreatorChecks
          /\ UNCHANGED <<trackerVars, utilVars>>
    \/ CreatorInserts
          /\ UNCHANGED <<trackerVars, utilVars>>

SpecStart == StartInit /\ [][StartNext]_vars

\* ---- a search over two sub-queries that is interrupted or fails, a client
\* ---- that saves a cursor for its session, and the resume of the session;
\* ---- the source may answer a sub-query with a rate-limit error each time.
\* ---- The items have ids on both sides of the saved last id.
ResumeCatalog ==
    { Item(<<1>>, TRUE, {"a200"}, NULL),
      Item(<<3>>, TRUE, {"a200"}, NULL),
      Item(<<9>>, TRUE, {"b200"}, "bob") }

ResumeRequests ==
    { Request(<<"A200", "B200">>, 1, NULL),
      Request(<<"A200", "B200">>, 2, NULL) }

ResumeInit ==
    /\ TrackerAtRest
    /\ RetryAtRest
    /\ SplitAtRest
    /\ source \in {[items |-> ResumeCatalog, yields |-> ResumeYields,
                     limited |-> l] : l \in LimitedQueries}
    /\ \E stores \in {EmptyStores, PriorStores}, enforced \in BOOLEAN :
          SearchInit(stores, enforced)

ResumeNext ==
    \/ \E c \in Commands, req \in ResumeRequests :
          used.sessions < MaxSessions /\ SearchCommandStarts(c, req)
          /\ UNCHANGED <<trackerVars, utilVars>>
    \/ \E c \in Commands, auth \in BOOLEAN : ExecuteSearchBegins(c, auth)
          /\ UNCHANGED <<trackerVars, utilVars>>
    \/ \E c \in Commands : SourceRequest(c)
          /\ UNCHANGED <<trackerVars, utilVars>>
    \/ \E c \in Commands, item \in source.items : SourceYields(c, item)
          /\ UNCHANGED <<trackerVars, utilVars>>
    \/ \E c \in Commands : SourceEnds(c)
          /\ UNCHANGED <<trackerVars, utilVars>>
    \/ \E c \in Commands : \E error \in RateLimitErrors :
          SourceRateLimited(c, error)
          /\ UNCHANGED <<trackerVars, utilVars>>
    \/ \E c \in Commands : RateLimitWaitEnds(c)
          /\ UNCHANGED <<trackerVars, utilVars>>
    \/ \E c \in Commands : ExamineItem(c)
          /\ UNCHANGED <<trackerVars, utilVars>>
    \/ \E c \in Commands : TweetExists(c)
          /\ UNCHANGED <<trackerVars, utilVars>>
    \/ \E c \in Commands : UpsertUser(c)
          /\ UNCHANGED <<trackerVars, utilVars>>
    \/ \E c \in Commands : InsertUser(c)
          /\ UNCHANGED <<trackerVars, utilVars>>
    \/ \E c \in Commands : UpdateUser(c)
          /\ UNCHANGED <<trackerVars, utilVars>>
    \/ \E c \in Commands : UpsertUserReturns(c)
          /\ UNCHANGED <<trackerVars, utilVars>>
    \/ SecondPasses
          /\ UNCHANGED <<trackerVars, utilVars>>
    \/ \E c \in Commands : InsertTweet(c)
          /\ UNCHANGED <<trackerVars, utilVars>>
    \/ \E c \in Commands : RecordOrigin(c)
          /\ UNCHANGED <<trackerVars, utilVars>>
    \/ \E c \in Commands, embed \in BOOLEAN : ExecuteSearchReturns(c, embed)
          /\ UNCHANGED <<trackerVars, utilVars>>
    \/ \E c \in Commands : EmbedDone(c)
          /\ UNCHANGED <<trackerVars, utilVars>>
    \/ \E c \in Commands : FinalizeSession(c)
          /\ UNCHANGED <<trackerVars, utilVars>>
    \/ \E c \in Commands : Interrupt(c)
          /\ UNCHANGED <<trackerVars, utilVars>>
    \/ \E id \in DOMAIN sessions, last \in CursorInputs :
          CallSaveCursor(id, "cursor-1", last)
          /\ UNCHANGED <<trackerVars, utilVars>>
    \/ \E c \in Commands, id \in ResumeTargets : ResumeStarts(c, id, FALSE)
          /\ UNCHANGED <<trackerVars, utilVars>>
    \/ \E c \in Commands : ResumeGetCursor(c)
          /\ UNCHANGED <<trackerVars, utilVars>>
    \/ \E c \in Commands : ResumeReopen(c)
          /\ UNCHANGED <<trackerVars, utilVars>>
    \/ \E c \in Commands, auth \in BOOLEAN : ResumeBegins(c, auth)
          /\ UNCHANGED <<trackerVars, utilVars>>
    \/ \E c \in Commands : ResumeFinalize(c)
          /\ UNCHANGED <<trackerVars, utilVars>>
    \/ \E c \in Commands, olderThan \in OlderThanInputs : HandleCleanup(c, olderThan, FALSE)
          /\ UNCHANGED <<trackerVars, utilVars>>

SpecResume == ResumeInit /\ [][ResumeNext]_vars

RetryInit == TrackerAtRest /\ SearchAtRest /\ RetryAtRest /\ SplitAtRest

SpecSplit == SplitInit /\ [][SplitNext]_vars

MatchInit ==
    /\ TrackerAtRest
    /\ SearchAtRest
    /\ RetryAtRest
    /\ split = NoSplit
    /\ match \in {[NoMatch EXCEPT !.text = t, !.variants = V] :
                     t \in MatchTexts,
                     V \in SeqsUpTo(MatchVariants, MaxVariants)}

MatchNext ==
    \/ CallMatchVariant
          /\ UNCHANGED <<trackerVars, searchVars, retry, split>>

SpecMatch == MatchInit /\ [][MatchNext]_vars

SpecRetry == RetryInit /\ [][RetryNext]_vars

\* every step that is ready is eventually taken: the event loop runs each
\* continuation whose await has settled, and the timer that
\* waitForRateLimitReset sets fires
SpecService == ServiceInit /\ [][ServiceNext]_vars /\ WF_vars(ServiceNext)

(***************************************************************************)
(* Properties of the job tracker.                                          *)
(***************************************************************************)

Terminal == {"completed", "failed", "cancelled"}

\* the step is a cancelJob(id) call that c's task takes up
CancelAccepted(c, id) ==
    /\ task[c].pc = "idle"
    /\ task'[c].op = "cancelJob" /\ task'[c].id = id

\* the step is a cancelJob(id) call that returns false at once
CancelReturnsFalse(id) ==
    returned' = << [op |-> "cancelJob", id |-> id, ret |-> "false"] >>

\* the step is a cancelJob(id) call
CancelCalled(id) ==
    /\ calls' = calls + 1
    /\ CancelReturnsFalse(id) \/ \E c \in Callers : CancelAccepted(c, id)

\* C1: a cancelJob(id) call that finds job id running leaves it cancelled
\* with a completion time and is taken up by a task, and a cancelJob task
\* that finishes returns true.
C1_CancelRunning ==
    /\ [][\A id \in DOMAIN jobs :
            (jobs[id].status = "running" /\ CancelCalled(id)) =>
               /\ returned' = << >>
               /\ \E c \in Callers : CancelAccepted(c, id)
               /\ id \in DOMAIN jobs'
               /\ jobs'[id].status = "cancelled"
               /\ jobs'[id].completedAt # NoDate]_vars
    /\ [][\A c \in Callers :
            (task[c].op = "cancelJob" /\ task'[c].pc = "idle") =>
               returned' = << [op |-> "cancelJob", id |-> task[c].id,
                               ret |-> "true"] >>]_vars

\* a running job that had a progress update was cancelled, and the call
\* has returned true
C1_Witness ==
    \E id \in DOMAIN jobs :
        /\ jobs[id].status = "cancelled"
        /\ jobs[id].completedAt # NoDate
        /\ jobs[id].progress.current = 1
        /\ returned = << [op |-> "cancelJob", id |-> id, ret |-> "true"] >>

NotRunning(id) == id \notin DOMAIN jobs \/ jobs[id].status \in Terminal

\* C2: a cancelJob(id) call on a job that is completed, failed, cancelled or
\* absent returns false in the same step, notifies nobody and leaves the
\* job map, the token map, the tokens, the persisted rows, the timers and
\* the calls in flight as they were.
C2_CancelRefusedNoOp ==
    [][\A id \in CancelTargets :
          (NotRunning(id) /\ CancelCalled(id)) =>
             /\ CancelReturnsFalse(id)
             /\ emitted' = << >>
             /\ UNCHANGED <<jobs, abortControllers, aborted, db, timers,
                            listeners, task, contexts>>]_vars

\* cancelJob was refused for a job that is in the map as completed
C2_Witness ==
    \E id \in DOMAIN jobs :
        /\ jobs[id].status = "completed"
        /\ returned = << [op |-> "cancelJob", id |-> id, ret |-> "false"] >>

\* the step belongs to a completeJob or cancelJob call on id
CompleteOrCancelStep(id) ==
    \E c \in Callers :
        \/ /\ task[c].pc = "idle"
           /\ task'[c].op \in {"completeJob", "cancelJob"} /\ task'[c].id = id
        \/ /\ task[c].op \in {"completeJob", "cancelJob"} /\ task[c].id = id

\* C3: once a job is completed, failed or cancelled, no step of a
\* completeJob or cancelJob call on its id changes its status, completedAt
\* or errorMessage.
C3_TerminalOnce ==
    [][\A id \in DOMAIN jobs :
          (jobs[id].status \in Terminal /\ CompleteOrCancelStep(id)
             /\ id \in DOMAIN jobs') =>
             /\ jobs'[id].status = jobs[id].status
             /\ jobs'[id].completedAt = jobs[id].completedAt
             /\ jobs'[id].errorMessage = jobs[id].errorMessage]_vars

\* C4: at most one recovery run is started per construction or reload; a
\* caller waiting on initialize() waits for a run that exists (the first
\* one as long as nobody reloads) or was let through because a run had
\* finished; and no caller gets past its await before a run has finished.
C4_SingleFlight ==
    /\ [](Len(runs) <= reloads + 1)
    /\ [](\A c \in Callers :
            task[c].pc = "awaitInit" =>
               IF task[c].await = 0
               THEN \E k \in 1..Len(runs) : runs[k] = "done"
               ELSE /\ task[c].await \in 1..Len(runs)
                    /\ reloads = 0 => task[c].await = 1)
    /\ [][\A c \in Callers :
            (task[c].pc = "awaitInit" /\ task'[c].pc # "awaitInit") =>
               /\ \E k \in 1..Len(runs) : runs[k] = "done"
               /\ task[c].await # 0 => runs[task[c].await] = "done"]_vars

\* an initialize() call and a createJob call overlap and wait for the
\* one run, which has not finished
C4_Witness ==
    /\ Len(runs) = 1 /\ runs[1] = "cleanup"
    /\ \E c, o \in Callers :
          /\ task[c].op = "initialize" /\ task[c].pc = "awaitInit"
          /\ task[o].op = "createJob" /\ task[o].pc = "awaitInit"
          /\ task[c].await = 1 /\ task[o].await = 1

StaleRows(d) == {id \in DOMAIN d : IsStale(d[id], StaleMs, now)}

\* the running rows that were older than the staleness threshold when the
\* service started
StaleAtStart(d) == {id \in DOMAIN d : IsStale(d[id], StaleMs, StartNow)}

\* C5: when an initialize() call resolves, no row of the store that was
\* running and older than the staleness threshold (one hour) when the
\* service started is still running: the call that follows the start has
\* marked it failed.
C5_NextInitializeMarks ==
    [][(returned' # << >> /\ returned'[1].op = "initialize") =>
          StaleAtStart(db') = {}]_vars

\* the mark step of a recovery run, when the store accepts it, leaves every
\* running row older than one hour failed; rows are purged only by the step
\* after it and jobs are loaded from the store only by the step after that;
\* and a caller waiting for the run resolves only when the run is over
RecoveryRunInOrder ==
    [][/\ \A k \in 1..Len(runs) :
            /\ (runs[k] = "mark" /\ runs'[k] = "cleanup") =>
                  /\ DOMAIN db' = DOMAIN db
                  /\ \A id \in StaleRows(db) : db'[id].status = "failed"
                  /\ StaleRows(db') = {}
            /\ runs[k] = "mark" => runs'[k] \in {"mark", "cleanup", "done"}
            /\ runs[k] = "cleanup" => runs'[k] \in {"cleanup", "load", "done"}
            /\ runs[k] = "load" => runs'[k] \in {"load", "done"}
       /\ (DOMAIN db \ DOMAIN db' # {}) =>
             \E k \in 1..Len(runs) : runs[k] = "cleanup" /\ runs'[k] = "load"
       /\ (\E id \in DOMAIN jobs' \ DOMAIN jobs :
               \A c \in Callers :
                  ~(task[c].op = "createJob" /\ task[c].pc = "persist"
                      /\ task[c].id = id /\ task'[c].pc = "idle")) =>
             \E k \in 1..Len(runs) : runs[k] = "load" /\ runs'[k] = "done"
       /\ \A c \in Callers :
            (task[c].op = "initialize" /\ task'[c].pc = "idle"
               /\ task[c].await # 0) => runs[task[c].await] = "done"]_vars

\* the store accepted every call of the first recovery run: the row that
\* was running for over an hour is failed and the row older than a day is
\* gone when the initialize() call resolves
RecoveryRunResolved ==
    /\ returned # << >> /\ returned[1].op = "initialize"
    /\ Len(runs) = 1 /\ reloads = 0
    /\ <<"search", StartNow - StaleMs - 1>> \in DOMAIN db
    /\ db[<<"search", StartNow - StaleMs - 1>>].status = "failed"
    /\ <<"embed", StartNow - RetentionMs - 1>> \notin DOMAIN db

(***************************************************************************)
(* Properties of the search session engine.                                *)
(***************************************************************************)

\* ---- the properties are stated of one of the commands, and of every other
\* ---- client of the stores: a command runs as any of Commands
run == command[1]
seen == history[1]

Refusals == {"not found", "already completed", "No cursor saved"}

\* the command, or another client, is answered in this step
Returned(op) ==
    result # << >> /\ result[1].op = op /\ result[1].by \in {0, 1}

CheckpointSaved(s) == sessions[s].cursor # NULL

\* C6: once a checkpoint has been saved for a session (saveCursor has set its
\* cursor and last item id), getCursor returns that last item id, and a
\* resume of the session is not refused for want of a cursor.
C6_CheckpointResumable ==
    /\ \A s \in DOMAIN sessions :
          CheckpointSaved(s) =>
             /\ getCursor(sessions, s) # NoCursor
             /\ getCursor(sessions, s).lastTweetId = sessions[s].lastTweetId
    /\ Returned("resume") /\ result[1].message = "No cursor saved"
          => ~CheckpointSaved(result[1].sid)

Processing == {"exists", "upsert", "userUpdate", "userInsert", "user",
               "insert", "origin", "checkpoint"}

Stores == <<sessions, tweets, users, fresh, origins>>

\* C7: in a resumed run no item whose id is lexically <= the saved last id is
\* ever existence-checked, inserted or attributed, and the step that takes
\* such an item leaves the examined count and every store as they were.
C7_ResumeSkipsSaved ==
    /\ [](run.op = "resume" /\ run.pc \in Processing
            => ~LexLeq(run.item.id, run.lastTweetId))
    /\ [][run.op = "resume" /\ run.pc = "item" /\ run.item.id # NoTweetId
             /\ LexLeq(run.item.id, run.lastTweetId) /\ run' # run
             /\ run'.op = "resume"
            => /\ run'.stats = run.stats
               /\ run'.pc = "pull"
               /\ UNCHANGED Stores]_vars

\* a resumed run has dropped one yielded item at the cursor filter and has
\* collected another
C7_Witness ==
    /\ run.op = "resume"
    /\ seen.pulls = 2
    /\ run.stats.totalProcessed = 1
    /\ run.stats.tweetsCollected = 1
    /\ LexLess(run.lastTweetId, <<9>>)

Refusable(s) ==
    \/ s \notin DOMAIN sessions
    \/ sessions[s].status = "completed"
    \/ ~CheckpointSaved(s)

\* C8: a resume ends without entering the loop only as a refusal, and it is
\* refused only if the session is unknown, completed or has never had a
\* cursor saved; a refusal makes no source request.
C8_ResumeRefusesExactly ==
    Returned("resume") /\ seen.requests = 0
        => /\ result[1].message \in Refusals
           /\ Refusable(result[1].sid)

AtMostOneOrigin ==
    \A o, p \in origins : o.tweetId = p.tweetId => o = p

\* C9: there is at most one origin row per record id; no origin row is ever
\* changed or removed; recordTweetOrigin answers false exactly when the
\* record already has an origin, and then adds nothing.
C9_FirstOriginWins ==
    /\ [] AtMostOneOrigin
    /\ [][/\ origins \subseteq origins'
          /\ Returned("recordTweetOrigin")'
                => /\ result'[1].success
                        = ~(\E o \in origins : o.tweetId = result'[1].data)
                   /\ ~result'[1].success => origins' = origins]_vars

\* recordTweetOrigin has answered false for a record whose origin belongs to
\* another session
C9_Witness ==
    /\ Returned("recordTweetOrigin")
    /\ ~result[1].success
    /\ \E o \in origins : o.tweetId = result[1].data
                             /\ o.searchSessionId # result[1].sid

\* a search over one sub-query that met no source error and no other writer
\* has returned its stats
CleanSingleQuery ==
    /\ Returned("search")
    /\ result[1].success
    /\ Len(sessions[result[1].sid].query) = 1
    /\ ~seen.failed
    /\ ~seen.raced

Persisted(s) ==
    Stats(sessions[s].tweetsCollected, sessions[s].totalProcessed,
          sessions[s].duplicatesSkipped, sessions[s].usersCreated)

AfterLoop == {"done", "embed", "finalize"}

\* the target stops the loop: once collected has reached it, no further item
\* is consumed
StopsAtTarget ==
    run.op = "search" /\ Len(run.queries) = 1
          /\ run.stats.tweetsCollected >= run.max
        => run.pc \in AfterLoop

\* C10 as stated: duplicates counts every consumed item that was in the
\* record store.
C10_StatsAllStored ==
    CleanSingleQuery =>
        /\ result[1].stats.totalProcessed = seen.pulls
        /\ result[1].stats.duplicatesSkipped = seen.inStore
        /\ result[1].stats.tweetsCollected = seen.availNew

\* C10: a search over one sub-query, with an error-free source and no other
\* writer, ends completed with examined = the items consumed (none after the
\* one that reaches the target), duplicates = the consumed available items
\* that were in the record store, collected = the consumed available items
\* that were not; the session row carries the same numbers.
C10_SingleQueryStats ==
    /\ StopsAtTarget
    /\ CleanSingleQuery =>
        /\ result[1].stats.totalProcessed = seen.pulls
        /\ result[1].stats.duplicatesSkipped = seen.availInStore
        /\ result[1].stats.tweetsCollected = seen.availNew
        /\ result[1].stats.tweetsCollected <= sessions[result[1].sid].maxTweets
        /\ sessions[result[1].sid].status = "completed"
        /\ Persisted(result[1].sid) = result[1].stats

\* target 3, five items yielded, two of them already stored
C10_Witness ==
    /\ CleanSingleQuery
    /\ sessions[result[1].sid].maxTweets = 3
    /\ sessions[result[1].sid].variants = <<"AGI", "GPT-5">>
    /\ seen.pulls = 5
    /\ seen.inStore = 2
    /\ result[1].stats.tweetsCollected = 3
    /\ result[1].stats.totalProcessed = 5
    /\ result[1].stats.duplicatesSkipped = 2
    /\ sessions[result[1].sid].status = "completed"

\* ------------------------------------------------------------------
\* C11: when searchCommand returns for a session it created, the session
\* row has status completed or failed and a completion timestamp; it is
\* never left running.
C11_SessionFinalized ==
    Returned("search") /\ result[1].sid \in DOMAIN sessions
        => /\ sessions[result[1].sid].status \in {"completed", "failed"}
           /\ sessions[result[1].sid].completedAt

\* ------------------------------------------------------------------
\* the cancellation token of the search's job reports cancelled
SearchJobCancelled ==
    \E x \in contexts : x.jobId = SearchJobId /\ x.ctrl \in aborted

\* C12: once the job of a running search has been cancelled, the execution
\* loop sees the flag at the next iteration boundary: an item that reaches
\* the head of the loop body while the flag is set is not examined (the
\* examined count does not grow).
C12_CancelStopsLoop ==
    [][SearchJobCancelled /\ run.op = "search" /\ run.pc = "item"
          => run'.stats.totalProcessed <= run.stats.totalProcessed]_vars

\* ------------------------------------------------------------------
\* C13: executeSearch terminates, also when the source answers every
\* request for a sub-query with a rate-limit error: a search that has
\* started returns.
C13_RateLimitBounded == (run.op = "search") ~> (run.op = "idle")

\* ------------------------------------------------------------------
\* C14: an error that classifyError labels Authentication or Validation,
\* raised by the source while a sub-query is iterated, is fatal to the
\* search: no further request is made to the source, and searchCommand
\* does not return success.
C14_FatalErrorStops ==
    seen.fatal =>
        /\ ~(run.op = "search" /\ run.pc = "pull")
        /\ Returned("search") => ~result[1].success

\* ------------------------------------------------------------------
\* the step is the synchronous part of a call by c that changes a job
Mutates(c) == task[c].pc = "idle" /\ task'[c].pc = "persist"

\* the step is the end of c's awaited store call, whether the store took the
\* write or threw
PersistSettles(c) == task[c].pc = "persist" /\ task'[c].pc = "idle"

\* the value the call resolves with
Resolves(t) ==
    Return(t, CASE t.op = "createJob" -> "context"
                [] t.op = "cancelJob" -> "true"
                [] OTHER -> "void")

\* C16: a persistence failure never blocks or escapes a job operation.  The
\* change is made in memory by the synchronous part of the call; when the
\* awaited store call settles (written or thrown) the call resolves
\* normally, every subscriber is notified, and the job is in memory with
\* the change (createJob: registered as running; the others: the job map is
\* not rolled back).
C16_PersistFailureHarmless ==
    [][\A c \in Callers :
         /\ Mutates(c) =>
               LET t == task'[c] IN
               /\ t.op = "updateProgress" => jobs'[t.id].progress = t.prog
               /\ t.op = "completeJob" =>
                     jobs'[t.id].status =
                        IF t.success THEN "completed" ELSE "failed"
               /\ t.op = "cancelJob" => jobs'[t.id].status = "cancelled"
         /\ PersistSettles(c) =>
               /\ returned' = Resolves(task[c])
               /\ emitted' = << [to |-> listeners, jobs |-> jobs'] >>
               /\ IF task[c].op = "createJob"
                  THEN /\ task[c].id \in DOMAIN jobs'
                       /\ jobs'[task[c].id].status = "running"
                  ELSE jobs' = jobs]_vars

\* completeJob has returned and a subscriber was notified of the completed
\* job, while the store still holds the row as running: the write failed
C16_Witness ==
    /\ returned # << >>
    /\ returned[1].op = "completeJob"
    /\ returned[1].ret = "void"
    /\ returned[1].id \in DOMAIN jobs
    /\ returned[1].id \in DOMAIN db
    /\ jobs[returned[1].id].status \in {"completed", "failed"}
    /\ db[returned[1].id].status = "running"
    /\ listeners # {}
    /\ emitted = << [to |-> listeners, jobs |-> jobs] >>

\* ------------------------------------------------------------------
\* the grace timer of job id is pending, or the completeJob / cancelJob call
\* that sets it is still awaiting the store
EvictionScheduled(id) ==
    \/ \E t \in Pending : t.id = id
    \/ \E c \in Callers :
          /\ task[c].pc = "persist"
          /\ task[c].op \in {"completeJob", "cancelJob"}
          /\ task[c].id = id

\* C17: every job that is in the in-memory map with a terminal status is
\* eventually evicted by its grace timer: a terminal job in the map has its
\* eviction scheduled.
C17_TerminalEvicted ==
    \A id \in DOMAIN jobs :
        jobs[id].status \in Terminal => EvictionScheduled(id)

\* ------------------------------------------------------------------
\* the step is a grace timer firing
Evicts(t) == timers # << >> /\ t = Head(timers) /\ timers' = Tail(timers)

\* the step notifies: every listener subscribed now gets the map as it is
\* after the step
Notifies == emitted' = << [to |-> listeners', jobs |-> jobs'] >>

\* C18: every mutating operation that takes effect notifies every currently
\* subscribed listener with a snapshot taken after the mutation: the change
\* is in memory before the notification (createJob and eviction make it in
\* the notifying step, the others in the synchronous part of the call,
\* which does not notify), and whatever is notified goes to exactly the
\* listeners subscribed at that moment, never to one that has unsubscribed.
C18_ListenersNotified ==
    [][/\ \A c \in Callers :
            /\ PersistSettles(c) => Notifies
            /\ PersistSettles(c) /\ task[c].op = "createJob"
                  => task[c].id \in DOMAIN jobs'
            /\ Mutates(c) => emitted' = << >>
       /\ \A t \in Pending :
            Evicts(t) => Notifies /\ t.id \notin DOMAIN jobs'
       /\ emitted' # << >> =>
            /\ Notifies
            /\ \A l \in Listeners :
                  l \notin listeners' => l \notin emitted'[1].to]_vars

\* a subscribed listener has just been told of an eviction
C18_Witness ==
    /\ listeners = {"l1"}
    /\ emitted = << [to |-> {"l1"}, jobs |-> jobs] >>
    /\ returned = << >>
    /\ \E x \in contexts : x.jobId \notin DOMAIN jobs

\* ------------------------------------------------------------------
\* JobContext.isCancelled(): abortController.signal.aborted
isCancelled(x) == x.ctrl \in aborted

\* the step is a cancelJob(id) call that succeeds (it will return true)
CancelSucceeds(id) == \E c \in Callers : CancelAccepted(c, id)

\* the step is an updateProgress(id) call that does nothing
ProgressIgnored(id) ==
    /\ returned' = << [op |-> "updateProgress", id |-> id, ret |-> "void"] >>
    /\ task' = task

\* what one step may do to the token of context x
TokenStep(x) ==
    /\ isCancelled(x) => (x.ctrl \in aborted')
    /\ CancelSucceeds(x.jobId) => (x.ctrl \in aborted')
    /\ ~isCancelled(x) /\ (x.ctrl \in aborted') => CancelSucceeds(x.jobId)
    /\ ProgressIgnored(x.jobId) => x.jobId \notin DOMAIN jobs

\* C19: the context's isCancelled() is false until cancelJob succeeds for
\* its job and true ever after; no other operation (completeJob included)
\* makes it true; and a cancelled job's updateProgress calls are still
\* carried out while the job is in the map.
C19_CancellationToken == [][\A x \in contexts : TokenStep(x)]_vars

\* the same for a context whose job id no other context carries
C19_TokenOfUniqueId ==
    [][\A x \in contexts :
          (\A y \in contexts : y.jobId = x.jobId => y = x) => TokenStep(x)]_vars

(***************************************************************************)
(* Properties of the retry wrappers.                                       *)
(***************************************************************************)

\* the i-th invocation of the operation failed with an error that
\* classifyError labels Authentication or Validation
FailedFatally(i) ==
    /\ i \in 1..retry.invoked
    /\ ~retry.plan[i].ok
    /\ Fatal(retry.plan[i].error)

\* that invocation was the last one, no wait followed it, and its error is
\* what the wrapper throws
NotRetriedAfter(i) ==
    /\ retry.invoked = i
    /\ Len(retry.waits) = i - 1
    /\ retry.pc = "threw"
    /\ retry.lastError = retry.plan[i].error

\* C15: neither wrapper invokes the operation again after it failed with an
\* Authentication or Validation error: that invocation is the last one, no
\* wait follows, and the error is rethrown.
C15_FatalNeverRetried ==
    \A i \in 1..SmartMaxAttempts : FailedFatally(i) => NotRetriedAfter(i)

\* the same for withSmartRetry alone
SmartNeverRetriesFatal ==
    retry.wrapper = "smart" => C15_FatalNeverRetried

(***************************************************************************)
(* Properties of the query builder.                                        *)
(***************************************************************************)

RECURSIVE Flatten(_)
Flatten(groups) ==
    IF groups = << >> THEN << >> ELSE Head(groups) \o Flatten(Tail(groups))

\* the groups are not empty and their concatenation is the list itself
Partitions ==
    /\ \A i \in 1..Len(split.groups) : split.groups[i] # << >>
    /\ Flatten(split.groups) = split.variants

\* the query built from the group, with or without date bounds, is within
\* the default budget
WithinBudget(group) ==
    \A dateRange \in DateRanges :
        queryLength(buildTwitterQuery(group, dateRange)) <= DefaultMaxLength

\* C20 as stated: splitQuery(V) partitions V in order, and the query built
\* from every group, with or without date bounds, is within the budget.
C20_SplitWithinBudget ==
    split.called =>
        /\ Partitions
        /\ \A i \in 1..Len(split.groups) : WithinBudget(split.groups[i])

\* C20, amended: splitQuery(V) partitions V in order, and the query built
\* from a group is within the budget unless the group is one variant whose
\* own query is already over it.
C20_SplitPartitions ==
    split.called =>
        /\ Partitions
        /\ \A i \in 1..Len(split.groups) :
              \/ WithinBudget(split.groups[i])
              \/ /\ Len(split.groups[i]) = 1
                 /\ ~WithinBudget(<< split.groups[i][1] >>)

\* a list was split in two where the third variant no longer fits, and an
\* over-long variant got a group of its own
C20_Witness ==
    /\ split.called
    /\ split.variants = << "A200", "C138", "F398" >>
    /\ split.groups = << << "A200", "C138" >>, << "F398" >> >>
    /\ queryLength(buildTwitterQuery(split.groups[1],
                                     "2024-12-22..2024-12-29")) = 397

(***************************************************************************)
(* Properties of the variant matcher.                                      *)
(***************************************************************************)

\* the positions of the variants that occur in the text, whatever their case
Occurring(m) ==
    { i \in 1..Len(m.variants) : toLowerCase(m.variants[i]) \in m.text }

\* C21: matchVariant returns none when no variant occurs in the text as a
\* case-insensitive substring; otherwise it returns a variant that occurs,
\* no occurring variant is longer, and of the occurring variants of that
\* length it is the first of the input list.
C21_LongestFirstMatch ==
    match.called =>
        IF Occurring(match) = {}
        THEN match.found = NULL
        ELSE \E i \in Occurring(match) :
                /\ match.found = match.variants[i]
                /\ \A j \in Occurring(match) :
                      /\ Length(match.variants[j]) <= Length(match.variants[i])
                      /\ Length(match.variants[j]) = Length(match.variants[i])
                            => i <= j

\* a shorter variant comes first in the list, and two variants of the
\* greatest length tie
C21_Witness ==
    /\ match.called
    /\ match.variants = <<"GPT-5", "B200", "A200">>
    /\ match.text = {"gpt-5", "a200", "b200"}
    /\ match.found = "B200"

(***************************************************************************)
(* Properties of the start of a search.                                    *)
(***************************************************************************)

QueriesOf(o) == twitterQueries(parseSearchVariants(o.pieces), o.dateRange)

\* C22: a command given --dry-run calls neither a store nor the source.
C22_DryRunNoIO ==
    seen.req.dryRun => ~seen.io /\ seen.requests = 0

\* a start with --dry-run calls nothing and answers with the queries of its
\* options, and those are the queries a search with the same options sends
DryRunStartShowsQueries ==
    /\ seen.req.dryRun /\ seen.req.resume = 0 /\ ~seen.req.cleanup
          => ~seen.io /\ seen.requests = 0 /\ run = IdleRun
    /\ seen.req.dryRun /\ Returned("search") /\ result[1].success
          => result[1].data = QueriesOf(seen.req)
    /\ run.op = "search" => run.queries = QueriesOf(seen.req)

InvalidStart(o) ==
    /\ ~o.cleanup
    /\ o.resume = 0
    /\ \/ ~o.given
       \/ Len(parseSearchVariants(o.pieces)) = 0
       \/ o.maxTweets <= 0
       \/ o.dateRange = DateConflict

\* command c is taken in this step
Taken(c) == CommandFree(c) /\ used'.commands = used.commands + 1

\* command c is answered in this step
AnsweredTo(c, op) ==
    result # << >> /\ result[1].op = op /\ result[1].by = c

\* C23: a start request with no query, a variant list that parses to no
\* variant, a target count <= 0, or --days together with --since/--until
\* is answered with a failure in the step that takes it; that step changes
\* no store, and the command makes no store call and no source request.
C23_InvalidRejected ==
    /\ [](\A c \in Commands :
             history[c] # NoHistory /\ InvalidStart(history[c].req)
                => /\ command[c] = IdleRun
                   /\ ~history[c].io
                   /\ history[c].requests = 0)
    /\ [][\A c \in Commands :
             Taken(c) /\ InvalidStart(history'[c].req)
                => /\ AnsweredTo(c, "search")'
                   /\ ~result'[1].success
                   /\ UNCHANGED <<topics, sessions, tweets, users, origins>>]_vars

\* --days with --since is refused for a named search, and no topic exists
C23_Witness ==
    /\ Returned("search")
    /\ ~result[1].success
    /\ result[1].message = DateConflict
    /\ seen.req.name = "ai"
    /\ topics = << >>
    /\ sessions = << >>

Conflicts == {"Topic already exists",
              "UNIQUE constraint failed: search_topics.name"}

OneRowPerName ==
    \A i, j \in DOMAIN topics : topics[i].name = topics[j].name => i = j

\* C24: there is never a second topic row of a name; a topic row keeps its
\* name and its variants for ever; a createTopic that acts when the name
\* exists, whether it finds the row or loses the race at the insert, fails
\* with a conflict error and adds nothing.
C24_TopicsUnique ==
    /\ [] OneRowPerName
    /\ [][/\ \A i \in DOMAIN topics :
                /\ i \in DOMAIN topics'
                /\ topics'[i].name = topics[i].name
                /\ topics'[i].variants = topics[i].variants
          /\ creator.pc # "idle" /\ creator'.pc = "idle"
                /\ getTopicByName(topics, creator.name) # 0
                => /\ Returned("createTopic")'
                   /\ ~result'[1].success
                   /\ result'[1].message \in Conflicts
                   /\ topics' = topics
          /\ \A c \in Commands :
                /\ command[c].pc \in {"createTopic", "insertTopic"}
                /\ command'[c] # command[c]
                /\ getTopicByName(topics, command[c].name) # 0
                => /\ AnsweredTo(c, "search")'
                   /\ ~result'[1].success
                   /\ result'[1].message \in Conflicts
                   /\ topics' = topics]_vars

\* another client passed its check, the command created the topic, and the
\* client's insert was refused
C24_Witness ==
    /\ Returned("createTopic")
    /\ ~result[1].success
    /\ result[1].message = "UNIQUE constraint failed: search_topics.name"
    /\ Len(topics) = 1
    /\ topics[1].variants = <<"AGI", "GPT-5">>

(***************************************************************************)
(* Properties of the execution loops.                                      *)
(***************************************************************************)

\* the command takes a step and goes on (a step of the clock is not a step
\* of the command)
EngineStep == run' # run /\ run'.op = run.op /\ run'.waitMs = run.waitMs

\* C25: when the wait for the rate-limit reset is over, the engine's next
\* step is a request for the sub-query that was rate-limited: it neither
\* moves to the next sub-query nor leaves the loop.
C25_RetrySameQuery ==
    [][run.pc = "wait" /\ EngineStep
          => run'.pc = "request" /\ run'.qi = run.qi]_vars

\* the start loop does ask for the same sub-query again
StartRetriesSameQuery ==
    [][run.op = "search" /\ run.pc = "wait" /\ EngineStep
          => run'.pc = "request" /\ run'.qi = run.qi]_vars

\* C26: when a store call made for a yielded item fails with an error that
\* is not a rate limit and not a uniqueness violation, the loop goes on with
\* the next item of the same sub-query.
C26_ItemFailureIsolated ==
    [][seen'.itemFailed /\ ~seen.itemFailed
          => run'.op = run.op /\ run'.pc = "pull" /\ run'.qi = run.qi]_vars

\* such a failure does not end the command
ItemFailureKeepsSession ==
    [][seen'.itemFailed /\ ~seen.itemFailed
          => run'.op = run.op /\ run'.pc \in {"request", "done"}]_vars

\* the item that made the examined count what it is has been dealt with
ItemSettled == run.op # "idle" /\ run.pc \notin ({"item"} \cup Processing)

\* C27: once the examined count of a run has reached a multiple of 50 and
\* the item that made it so has been dealt with, a checkpoint has been saved
\* to the session row, whether the item was collected or skipped.
C27_CheckpointByExamined ==
    /\ ItemSettled
    /\ ~seen.failed
    /\ run.stats.totalProcessed > 0
    /\ run.stats.totalProcessed % CheckpointEvery = 0
    => /\ CheckpointSaved(run.sid)
       /\ sessions[run.sid].lastTweetId # NoTweetId

\* a checkpoint is saved when the item that makes the count a multiple of 50
\* is collected
CheckpointWhenCollected ==
    [][/\ run.pc = "origin" /\ EngineStep
            /\ seen'.itemFailed = seen.itemFailed
            /\ run.stats.totalProcessed % CheckpointEvery = 0
          => run'.pc = "checkpoint"
       /\ run.pc = "checkpoint" /\ EngineStep
            /\ seen'.itemFailed = seen.itemFailed
          => /\ CheckpointSaved(run.sid)'
             /\ sessions'[run.sid].lastTweetId = run.item.id]_vars

\* the collected count of the running command is within its target
InsideTarget == run.stats.tweetsCollected <= run.max

\* a step of a command whose collected count has reached the target neither
\* requests a sub-query nor examines an item
HaltsAtTarget ==
    run.op # "idle" /\ EngineStep /\ run.stats.tweetsCollected >= run.max
        => /\ ~(run.pc = "request" /\ run'.pc = "pull")
           /\ run'.stats.totalProcessed = run.stats.totalProcessed

\* C28: in the start loop and in the resume loop the collected count never
\* exceeds the session's target, and once it has reached the target no
\* further sub-query is requested and no further item is examined.
C28_NeverExceedsTarget ==
    /\ [](run.op # "idle" => InsideTarget)
    /\ [][HaltsAtTarget]_vars

\* the start loop alone keeps to the target
StartKeepsTarget ==
    /\ [](run.op = "search" => InsideTarget)
    /\ [][run.op = "search" => HaltsAtTarget]_vars

\* the collected count of a resumed command is within the session's target
ResumeInsideTarget == run.op = "resume" => InsideTarget

\* another writer has stored, since this command's existence check, the
\* record this command is about to insert
LostTweetRace == run.pc = "insert" /\ run.item.id \in tweets

\* another writer has created, since this command's select, the author this
\* command is about to create
LostUserRace == run.pc = "userInsert" /\ Username(run.item) \in users

\* the command's own step after a lost race on the record: the record stays
\* stored once, is counted as a duplicate and the loop takes the next item
TweetRaceAbsorbed ==
    LostTweetRace /\ EngineStep /\ seen'.itemFailed = seen.itemFailed
        => /\ tweets' = tweets
           /\ run'.stats.duplicatesSkipped = run.stats.duplicatesSkipped + 1
           /\ run'.stats.tweetsCollected = run.stats.tweetsCollected
           /\ run'.qi = run.qi
           /\ run'.pc = "pull"

\* the command's own step after a lost race on the author: the item goes on
\* to its insert within the same sub-query
UserRaceAbsorbed ==
    LostUserRace /\ EngineStep /\ seen'.itemFailed = seen.itemFailed
        => /\ users' = users
           /\ run'.qi = run.qi
           /\ run'.pc = "user"

\* C29: a command that loses the insert race for a new item, possibly by a
\* new author, to another writer leaves the record stored once, counts it as
\* a duplicate and continues with its next item; its sub-query is not
\* abandoned.
C29_LostRaceAbsorbed == [][TweetRaceAbsorbed /\ UserRaceAbsorbed]_vars

\* a lost race on the record alone is absorbed
LostTweetRaceAbsorbed == [][TweetRaceAbsorbed]_vars

\* the moves of a session's status that the life cycle allows
StatusMoves ==
    { <<"pending", "running">>, <<"running", "completed">>,
      <<"running", "failed">>, <<"running", "paused">>,
      <<"paused", "running">> }

\* C30: the status of a search session changes only along pending -> running
\* -> completed or failed, running -> paused and paused -> running; a
\* completed or a failed session never changes its status again, whatever
\* operation runs, resumeSearch included.
C30_StatusLifeCycle ==
    [][\A s \in DOMAIN sessions :
          \/ sessions'[s].status = sessions[s].status
          \/ <<sessions[s].status, sessions'[s].status>> \in StatusMoves]_vars

\* resumeSearch refuses a session whose row it reads as completed and leaves
\* the row as it is
ResumeRefusesCompleted ==
    [][(/\ run.op = "idle"
        /\ seen' # seen
        /\ seen'.req.resume \in DOMAIN sessions
        /\ sessions[seen'.req.resume].status = "completed")
        => run'.op = "idle" /\ sessions' = sessions]_vars

\* caller c's updateProgress call returns in this step
UpdateProgressReturns(c) ==
    /\ task[c].op = "updateProgress"
    /\ task[c].pc = "persist"
    /\ task'[c].pc = "idle"

\* C31: progress updates of a job reach the subscribers in the order issued:
\* the notification that an updateProgress call issues carries the progress
\* of that call, also when a later call for the job was issued while this one
\* awaited persistence, so that p1 is seen before p2.
C31_ProgressInOrder ==
    [][\A c \in Callers :
          UpdateProgressReturns(c) /\ task[c].id \in DOMAIN jobs
              => /\ emitted' # << >>
                 /\ emitted'[1].jobs[task[c].id].progress = task[c].prog]_vars

\* a notification carries the jobs as they are when it is issued, so an
\* older progress is never shown after a newer one
NotificationIsCurrent == emitted # << >> => emitted[1].jobs = jobs

\* the item in hand was inserted by this command while an earlier request to
\* the source was being read (an earlier attempt of the sub-query, or an
\* earlier sub-query)
OwnEarlier ==
    \E o \in seen.own : o[1] = run.item.id /\ o[2] < seen.requests

\* C32: a record that the command itself inserted is not examined a second
\* time and is not counted as a duplicate by the same command, when the
\* sub-query is asked again after a rate limit or when a second sub-query of
\* a split query yields the item again.
C32_OwnNeverDuplicate ==
    [][OwnEarlier /\ EngineStep
         => /\ run'.stats.totalProcessed = run.stats.totalProcessed
            /\ run'.stats.duplicatesSkipped = run.stats.duplicatesSkipped]_vars

\* a record that the command inserted is never collected a second time
OwnNeverCollectedTwice ==
    [][OwnEarlier /\ EngineStep
         => run'.stats.tweetsCollected = run.stats.tweetsCollected]_vars

\* how many records session s has collected: each collected record has its
\* origin row, written by the session that inserted it
CollectedBy(s) == Cardinality({o \in origins : o.searchSessionId = s})

\* the positions of resumeSearch from the head of its loop to its last update
ResumeLoop ==
    {"request", "pull", "wait", "item", "done"} \cup Processing

\* C33: the counters survive an interruption: a resumed loop starts from the
\* number of records the session collected before it was interrupted, with
\* the rest of the target as its limit, and the collected count that is
\* persisted at the end is the number of records the session inserted before
\* and after the interruption.
C33_CountersSurvive ==
    run.op = "resume" /\ run.pc \in ResumeLoop
        => /\ run.stats.tweetsCollected = CollectedBy(run.sid)
           /\ run.pc = "request" /\ run.qi = 1
                => run.limit = run.max - CollectedBy(run.sid)

\* a command that is not interrupted, and whose session no other command
\* resumes while it runs, persists the number of records it inserted
UninterruptedCountExact ==
    [][run.op = "search" /\ run.pc = "finalize" /\ run'.op = "idle"
             /\ sessions'[run.sid].status = "completed"
             /\ (\A c \in Commands : history[c].req.resume # run.sid)
          => sessions'[run.sid].tweetsCollected = CollectedBy(run.sid)]_vars

\* resumeSearch, run as command c, has in hand an item whose record is in the
\* store
StoredInHand(c) == command[c].op = "resume" /\ command[c].item.id \in tweets

\* command c's own next step on the item in hand
HandlesItem(c) ==
    /\ command'[c] # command[c]
    /\ command'[c].op = command[c].op
    /\ history'[c].itemFailed = history[c].itemFailed

OneOriginPerRecord ==
    \A o1, o2 \in origins : o1.tweetId = o2.tweetId => o1 = o2

\* the existence check of resumeSearch counts a stored item as a duplicate
\* and takes the next item; the stores stay as they are
StoredIsDuplicate(c) ==
    LET before == command[c]
        after == command'[c]
    IN  StoredInHand(c) /\ before.pc = "exists" /\ HandlesItem(c)
           => /\ after.stats.duplicatesSkipped
                     = before.stats.duplicatesSkipped + 1
              /\ after.stats.tweetsCollected = before.stats.tweetsCollected
              /\ after.pc = "pull"
              /\ tweets' = tweets /\ origins' = origins

\* the head of resumeSearch's loop body, for a stored item: dropped by the
\* cursor filter, or skipped as unavailable, or handed to the existence check
StoredIsFiltered(c) ==
    LET before == command[c]
        after == command'[c]
    IN  StoredInHand(c) /\ before.pc = "item" /\ HandlesItem(c)
           => /\ after.stats.tweetsCollected = before.stats.tweetsCollected
              /\ tweets' = tweets /\ origins' = origins
              /\ IF CursorSkips(before.item.id, before.lastTweetId)
                 THEN after.pc = "pull" /\ after.stats = before.stats
                 ELSE IF ~before.item.hasText THEN after.pc = "pull"
                 ELSE after.pc = "exists"

\* C34 as stated: an available item that resumeSearch is given again and
\* whose record is in the store is counted as a duplicate.
C34_StoredCountedDuplicate ==
    [][\A c \in Commands :
          /\ StoredInHand(c) /\ command[c].pc = "item"
                /\ command[c].item.hasText /\ HandlesItem(c)
                => command'[c].pc = "exists"
          /\ StoredIsDuplicate(c)]_vars

\* C34, amended: no record is stored twice across an interruption: a record
\* id has at most one origin row, and an item that resumeSearch is given
\* again and whose record is in the store is never collected again: it is
\* dropped by the cursor filter (id <= saved last id), skipped as unavailable,
\* or counted as a duplicate by the existence check.
C34_NoSecondStore ==
    /\ []OneOriginPerRecord
    /\ [][\A c \in Commands :
             StoredIsFiltered(c) /\ StoredIsDuplicate(c)]_vars

\* a record the session collected before the interruption has been counted
\* as a duplicate by the resumed loop, which has collected nothing itself
C34_Witness ==
    /\ run.op = "resume"
    /\ run.pc = "pull"
    /\ run.stats.duplicatesSkipped = 1
    /\ run.stats.tweetsCollected = 0
    /\ CollectedBy(run.sid) >= 1

\* C35: the running total of a topic is exact under concurrency: the update a
\* completing command makes adds its collected count to the total the topic
\* has at that moment, so that no other completion's contribution is lost.
C35_TopicTotalExact ==
    [][run.pc = "topicWrite" /\ run'.pc = "idle" /\ result' # << >>
          => topics'[run.topic].totalTweetsFound
                 = topics[run.topic].totalTweetsFound
                       + run.stats.tweetsCollected]_vars

\* without another completion in between, the update adds the command's
\* collected count to the topic's total
TopicTotalExactAlone ==
    [][run.pc = "topicWrite" /\ run'.pc = "idle" /\ result' # << >> /\ ~seen.raced
          => topics'[run.topic].totalTweetsFound
                 = topics[run.topic].totalTweetsFound
                       + run.stats.tweetsCollected]_vars

\* C36: job identities are unique: any two createJob calls return distinct
\* job ids, also when they are made within the same clock tick or overlap, so
\* no job replaces another's record or cancellation token.
C36_JobIdsUnique ==
    \A x, y \in contexts : x.jobId = y.jobId => x = y

\* the token registered under an id is the token of a job created with that
\* id: cancelJob(id) signals no token of another id
TokenRegisteredUnderOwnId ==
    \A id \in DOMAIN abortControllers :
        \E x \in contexts : x.jobId = id /\ x.ctrl = abortControllers[id]

\* cancelJob has just returned true for id
CancelReturnedTrue(id) ==
    /\ returned # << >>
    /\ returned[1].op = "cancelJob"
    /\ returned[1].id = id
    /\ returned[1].ret = "true"

\* C37: isJobCancelled(id) reports the cancellation state of a job: false for
\* a job that has not been cancelled, true for a job in the map on which
\* cancelJob has returned true.
C37_IsJobCancelledReports ==
    \A id \in DOMAIN jobs :
        /\ jobs[id].status # "cancelled" => ~isJobCancelled(id)
        /\ CancelReturnedTrue(id) => isJobCancelled(id)

\* isJobCancelled is false for every job, cancelled or not
IsJobCancelledAlwaysFalse ==
    \A id \in DOMAIN jobs \cup DOMAIN abortControllers : ~isJobCancelled(id)

\* the sleep that follows the i-th invocation, as the protocol states it: the
\* suggested delay of the error's category, doubled per attempt (attempts
\* counted from 0) and capped at five minutes
ProtocolDelay(i) ==
    Min(classifyError(retry.plan[i].error).suggestedDelay * Pow2(i - 1),
        SmartDelayCap)

\* a withSmartRetry call is invoking the operation, sleeping or done
SmartCalled == retry.wrapper = "smart"

\* every invocation so far failed with an error that is retried
AllRetryableFailures ==
    \A i \in 1..retry.invoked :
        ~retry.plan[i].ok /\ classifyError(retry.plan[i].error).shouldRetry

\* C38: withSmartRetry is a bounded retry protocol: the operation is invoked
\* at most maxAttempts times; the first successful result is returned with
\* no further attempt; between consecutive attempts it sleeps
\* min(suggestedDelay * 2^attempt, 300000) ms; and when every attempt has
\* failed with a retryable error it rethrows the last error after calling
\* onFinalFailure exactly once.
C38_BoundedRetry ==
    SmartCalled =>
        /\ retry.invoked <= retry.max
        /\ retry.pc = "returned"
              => /\ retry.plan[retry.invoked].ok
                 /\ \A i \in 1..(retry.invoked - 1) : ~retry.plan[i].ok
                 /\ retry.finalCalls = 0
        /\ \A i \in 1..(retry.invoked - 1) : ~retry.plan[i].ok
        /\ Len(retry.waits) =
              IF retry.pc \in {"call", "sleep"} /\ retry.invoked > 0
              THEN retry.attempt + (IF retry.pc = "sleep" THEN 1 ELSE 0)
              ELSE IF retry.invoked = 0 THEN 0 ELSE retry.invoked - 1
        /\ \A i \in 1..Len(retry.waits) : retry.waits[i] = ProtocolDelay(i)
        /\ retry.invoked = retry.max /\ AllRetryableFailures
              => /\ retry.pc = "threw"
                 /\ retry.lastError = retry.plan[retry.max].error
                 /\ retry.finalCalls = 1
                 /\ retry.finalFailure = retry.max
        /\ retry.finalCalls <= 1

\* every attempt of a call with five attempts failed with a rate-limit
\* error: the last sleep was capped, the error was rethrown
C38_Witness ==
    /\ SmartCalled
    /\ retry.max = LongAttempts
    /\ retry.pc = "threw"
    /\ retry.invoked = LongAttempts
    /\ retry.waits[LongAttempts - 1] = SmartDelayCap
    /\ retry.finalCalls = 1
    /\ retry.lastError = RateLimitExceeded

\* the place of a retryable category in the order the specification gives:
\* rate-limit > temporary > network > unknown
CategoryRank(type) ==
    CASE type = "RATE_LIMIT" -> 4 [] type = "TEMPORARY" -> 3
      [] type = "NETWORK" -> 2 [] type = "UNKNOWN" -> 1 [] OTHER -> 0

\* the place of a retryable category in the order of the delays of the code
CodeRank(type) ==
    CASE type = "RATE_LIMIT" -> 4 [] type = "TEMPORARY" -> 3
      [] type = "UNKNOWN" -> 2 [] type = "NETWORK" -> 1 [] OTHER -> 0

\* the errors the operation of the call in flight throws
PlannedErrors ==
    {retry.plan[i].error : i \in {j \in DOMAIN retry.plan : ~retry.plan[j].ok}}

NoDelayIfFatal ==
    \A e \in PlannedErrors :
        ~classifyError(e).shouldRetry => classifyError(e).suggestedDelay = 0

\* C39: the suggested delays of classifyError are strictly ordered by
\* category, rate-limit > temporary > network > unknown, and the categories
\* that are not retried, authentication and validation, carry no delay.
C39_DelaysOrdered ==
    /\ \A e1, e2 \in PlannedErrors :
          LET c1 == classifyError(e1)
              c2 == classifyError(e2)
          IN  c1.shouldRetry /\ c2.shouldRetry
                  /\ CategoryRank(c1.type) > CategoryRank(c2.type)
                => c1.suggestedDelay > c2.suggestedDelay
    /\ NoDelayIfFatal

\* the order the code has: rate-limit > temporary > unknown > network
DelaysOrderedAsCoded ==
    /\ \A e1, e2 \in PlannedErrors :
          LET c1 == classifyError(e1)
              c2 == classifyError(e2)
          IN  c1.shouldRetry /\ c2.shouldRetry
                  /\ CodeRank(c1.type) > CodeRank(c2.type)
                => c1.suggestedDelay > c2.suggestedDelay
    /\ NoDelayIfFatal

\* a call whose operation throws an error of each retried category
AllCategoriesPlanned ==
    {classifyError(e).type : e \in PlannedErrors}
        = {"RATE_LIMIT", "TEMPORARY", "UNKNOWN"}

====
